---- MODULE Spec2Model ----
(***************************************************************************)
(* A state-machine model of lwan's template engine (lwan-template.c):      *)
(* the state-function lexer, the parser that emits chunks, the linker      *)
(* (post_process_template) and the chunk interpreter (apply).              *)
(*                                                                         *)
(* Conventions.  Characters are one-character strings and the template     *)
(* source is a sequence of them.  Pointers into the source and into the    *)
(* chunk array are 0-based offsets, as in the C code; element p of a       *)
(* sequence s is s[p + 1].                                                 *)
(***************************************************************************)
EXTENDS Integers, Sequences, FiniteSets, TLC

VARIABLES
    input,      \* the NUL-terminated template string given to the compiler
    lexer,      \* struct lexer: state, start, pos, ring_buffer
    parser,     \* struct parser: symtab, flags, stack, chunks
    state,      \* parse_string's `state` (and the position inside a handler
                \* that is waiting for lex_next)
    lexeme,     \* parse_string's `lexeme`: the ring slot it points to, or NULL
    tpl,        \* struct lwan_tpl: chunks, minimum_size
    frames,     \* the activations of apply(), innermost last
    buf,        \* the output lwan_strbuf
    variables,  \* the record handed to lwan_tpl_apply_with_buffer
    kept,       \* what the caller kept of its first render, if it keeps it
    freed,      \* the pointers handed to free(), in the order of the calls
    pc          \* where the whole program is

vars ==
    <<input, lexer, parser, state, lexeme, tpl, frames, buf, variables, kept,
      freed, pc>>

-----------------------------------------------------------------------------
(* Bounds of the model *)

\* Longest template, counted in pieces (tags or text runs).
MaxPieces == 4
\* Most items a generator yields.
MaxItems == 2
\* Deepest nesting of blocks in the generated templates.
MaxDepth == 2

-----------------------------------------------------------------------------
(* Program constants *)

LEXEME_MAX_LEN == 64
RING_BUFFER_SIZE == 4

NULL == -1

left_meta == <<"{", "{">>
right_meta == <<"}", "}">>

-----------------------------------------------------------------------------
(* Characters *)

Digits == {"0", "1", "2", "3", "4", "5", "6", "7", "8", "9"}
Letters ==
    {"a", "b", "c", "d", "e", "f", "g", "h", "i", "j", "k", "l", "m", "n", "o",
     "p", "q", "r", "s", "t", "u", "v", "w", "x", "y", "z",
     "A", "B", "C", "D", "E", "F", "G", "H", "I", "J", "K", "L", "M", "N", "O",
     "P", "Q", "R", "S", "T", "U", "V", "W", "X", "Y", "Z"}

isalnum(ch) == ch \in Letters \cup Digits
isspace(ch) == ch \in {" ", "\t", "\n", "\r", "\f"}
isident(ch) == isalnum(ch) \/ ch = "_" \/ ch = "." \/ ch = "/"

\* No character taken for a newline, where the lexer tests r == '\n'
is_newline_never(ch) == FALSE

\* r == '\n' in lex_partial and lex_inside_action
is_newline(ch) == ch = "\n"

\* *p for a pointer p into the source; the terminating NUL at the end.
CharAt(p) == IF p >= 0 /\ p < Len(input) THEN input[p + 1] ELSE "NUL"

\* !strncmp(p, meta, strlen(meta))
StartsWith(p, meta) == CharAt(p) = meta[1] /\ CharAt(p + 1) = meta[2]

\* The len bytes at offset s of the source.
Slice(s, len) == SubSeq(input, s + 1, s + len)

-----------------------------------------------------------------------------
(* The lexeme ring buffer *)

NoLexeme == [type |-> "NONE", start |-> 0, len |-> 0, msg |-> ""]

lexeme_ring_buffer_init ==
    [read |-> 0, write |-> 0, array |-> [i \in 0..(RING_BUFFER_SIZE - 1) |-> NoLexeme]]

lexeme_ring_buffer_empty(rb) == rb.write = rb.read

lexeme_ring_buffer_put(rb, e) ==
    [rb EXCEPT !.array[rb.write % RING_BUFFER_SIZE] = e, !.write = @ + 1]

\* The slot lexeme_ring_buffer_get_ptr hands out.
lexeme_ring_buffer_slot(rb) == rb.read % RING_BUFFER_SIZE

lexeme_ring_buffer_get_ptr(rb) == [rb EXCEPT !.read = @ + 1]

-----------------------------------------------------------------------------
(* The lexer.  Each lex_* operator is one state function: it takes the     *)
(* lexer and gives the lexer after the call, its `state` field being the   *)
(* state the function returned.                                            *)

emit_lexeme(L, lx) ==
    [L EXCEPT !.ring_buffer = lexeme_ring_buffer_put(@, lx), !.start = L.pos]

emit(L, type) ==
    emit_lexeme(L, [type |-> type, start |-> L.start, len |-> L.pos - L.start,
                    msg |-> ""])

\* The ERROR lexeme emitted and the lexer going on with the text, where
\* lex_error returns NULL for the next state
lex_error_goes_on(L, msg) ==
    [emit_lexeme(L, [type |-> "ERROR", start |-> 0, len |-> 0, msg |-> msg])
        EXCEPT !.state = "lex_text"]

lex_error(L, msg) ==
    [emit_lexeme(L, [type |-> "ERROR", start |-> 0, len |-> 0, msg |-> msg])
        EXCEPT !.state = "NULL"]

\* next(): the character read (EOF at the end) and the lexer afterwards.
next(L) ==
    IF L.pos >= Len(input)
        THEN [r |-> "EOF", lexer |-> L]
        ELSE [r |-> CharAt(L.pos), lexer |-> [L EXCEPT !.pos = @ + 1]]

ignore(L) == [L EXCEPT !.start = L.pos]

backup(L) == [L EXCEPT !.pos = @ - 1]

RECURSIVE lex_identifier_scan(_)
\* while (isident(next(lexer)));
lex_identifier_scan(L) ==
    LET n == next(L)
    IN  IF isident(n.r) THEN lex_identifier_scan(n.lexer) ELSE n.lexer

lex_identifier(L) ==
    [emit(backup(lex_identifier_scan(L)), "IDENTIFIER")
        EXCEPT !.state = "lex_inside_action"]

RECURSIVE lex_partial(_)
lex_partial(L) ==
    LET n == next(L)
    IN  IF n.r = "EOF"
            THEN lex_error(n.lexer, "unexpected EOF while scanning action")
        ELSE IF is_newline(n.r)
            THEN lex_error(n.lexer, "actions cannot span multiple lines")
        ELSE IF isspace(n.r)
            THEN lex_partial(ignore(n.lexer))
        ELSE IF isident(n.r)
            THEN [backup(n.lexer) EXCEPT !.state = "lex_identifier"]
        ELSE lex_error(n.lexer, "unexpected character")

lex_quoted_identifier(L) ==
    LET L1 == lex_identifier(emit(L, "OPEN_CURLY_BRACE"))
        n  == next(L1)
    IN  IF n.r # "}"
            THEN lex_error(n.lexer, "expecting `}'")
            ELSE [emit(n.lexer, "CLOSE_CURLY_BRACE")
                    EXCEPT !.state = "lex_inside_action"]

RECURSIVE lex_comment_scan(_, _)
\* The do-while of lex_comment: the lexer when it ends, with state "NULL"
\* after the error of an unterminated comment.
lex_comment_scan(L, brackets) ==
    LET n == next(L)
        b == IF n.r = "{" THEN brackets + 1
             ELSE IF n.r = "}" THEN brackets - 1
             ELSE brackets
    IN  IF n.r = "EOF"
            THEN lex_error(n.lexer, "unexpected EOF while scanning comment end")
        ELSE IF b # 0
            THEN lex_comment_scan(n.lexer, b)
        ELSE [ignore(n.lexer) EXCEPT !.state = "lex_text"]

lex_comment(L) == lex_comment_scan(L, Len(left_meta))

RECURSIVE lex_inside_action(_)
lex_inside_action(L) ==
    IF StartsWith(L.pos, right_meta)
        THEN [L EXCEPT !.state = "lex_right_meta"]
    ELSE
    LET n == next(L)
    IN  CASE n.r = "EOF" ->
                lex_error(n.lexer, "unexpected EOF while scanning action")
          [] is_newline(n.r) ->
                lex_error(n.lexer, "actions cannot span multiple lines")
          [] n.r = "#" ->
                [emit(n.lexer, "HASH") EXCEPT !.state = "lex_inside_action"]
          [] n.r = "?" ->
                [emit(n.lexer, "QUESTION_MARK") EXCEPT !.state = "lex_inside_action"]
          [] n.r = "^" ->
                [emit(n.lexer, "HAT") EXCEPT !.state = "lex_inside_action"]
          [] n.r = ">" ->
                [emit(n.lexer, "GREATER_THAN") EXCEPT !.state = "lex_partial"]
          [] n.r = "{" ->
                [n.lexer EXCEPT !.state = "lex_quoted_identifier"]
          [] n.r = "/" ->
                [emit(n.lexer, "SLASH") EXCEPT !.state = "lex_inside_action"]
          [] OTHER ->
                IF isspace(n.r)
                    THEN lex_inside_action(ignore(n.lexer))
                ELSE IF isident(n.r)
                    THEN [backup(n.lexer) EXCEPT !.state = "lex_identifier"]
                ELSE lex_error(n.lexer, "unexpected character")

lex_left_meta(L) ==
    LET n == next([L EXCEPT !.pos = @ + Len(left_meta)])
    IN  IF n.r = "!"
            THEN [n.lexer EXCEPT !.state = "lex_comment"]
            ELSE [emit(backup(n.lexer), "LEFT_META")
                    EXCEPT !.state = "lex_inside_action"]

lex_right_meta(L) ==
    [emit([L EXCEPT !.pos = @ + Len(right_meta)], "RIGHT_META")
        EXCEPT !.state = "lex_text"]

RECURSIVE lex_text_no_eof(_)
\* The rest of the input emitted as text and no EOF lexeme after it,
\* where lex_text emits LEXEME_EOF at the end of the input
lex_text_no_eof(L) ==
    IF StartsWith(L.pos, left_meta)
        THEN [(IF L.pos > L.start THEN emit(L, "TEXT") ELSE L)
                EXCEPT !.state = "lex_left_meta"]
    ELSE IF StartsWith(L.pos, right_meta)
        THEN lex_error(L, "unexpected action close sequence")
    ELSE
    LET n == next(L)
    IN  IF n.r # "EOF"
            THEN lex_text_no_eof(n.lexer)
            ELSE [emit(n.lexer, "TEXT") EXCEPT !.state = "NULL"]

RECURSIVE lex_text(_)
lex_text(L) ==
    IF StartsWith(L.pos, left_meta)
        THEN [(IF L.pos > L.start THEN emit(L, "TEXT") ELSE L)
                EXCEPT !.state = "lex_left_meta"]
    ELSE IF StartsWith(L.pos, right_meta)
        THEN lex_error(L, "unexpected action close sequence")
    ELSE
    LET n == next(L)
    IN  IF n.r # "EOF"
            THEN lex_text(n.lexer)
            ELSE [emit(IF n.lexer.pos > n.lexer.start
                           THEN emit(n.lexer, "TEXT") ELSE n.lexer, "EOF")
                    EXCEPT !.state = "NULL"]

lex_init ==
    [state |-> "lex_text", start |-> 0, pos |-> 0,
     ring_buffer |-> lexeme_ring_buffer_init]

-----------------------------------------------------------------------------
(* The caller's variable descriptors.  A descriptor is named by its index  *)
(* in lwan_var_descriptor; a descriptor set (a list_desc) is the sequence  *)
(* of the indices of its entries.                                          *)
(*   root:    s (string), i (int), a (sequence), b (sequence), and two     *)
(*            strings with names of LEXEME_MAX_LEN and LEXEME_MAX_LEN + 1  *)
(*            bytes                                                        *)
(*   items of a: v (string);   items of b: s (string)                      *)

\* A name of n bytes
LongName(n) == [k \in 1..n |-> "x"]

lwan_var_descriptor ==
    <<[name |-> <<"s">>, offset |-> "s",
       append_to_strbuf |-> "lwan_append_str_to_strbuf",
       get_is_empty |-> "lwan_tpl_str_is_empty",
       generator |-> "NULL", list_desc |-> "NULL"],
      [name |-> <<"i">>, offset |-> "i",
       append_to_strbuf |-> "lwan_append_int_to_strbuf",
       get_is_empty |-> "lwan_tpl_int_is_empty",
       generator |-> "NULL", list_desc |-> "NULL"],
      [name |-> <<"a">>, offset |-> "a",
       append_to_strbuf |-> "NULL", get_is_empty |-> "NULL",
       generator |-> "a", list_desc |-> "item_a"],
      [name |-> <<"b">>, offset |-> "b",
       append_to_strbuf |-> "NULL", get_is_empty |-> "NULL",
       generator |-> "b", list_desc |-> "item_b"],
      [name |-> <<"v">>, offset |-> "v",
       append_to_strbuf |-> "lwan_append_str_to_strbuf",
       get_is_empty |-> "lwan_tpl_str_is_empty",
       generator |-> "NULL", list_desc |-> "NULL"],
      [name |-> <<"s">>, offset |-> "bs",
       append_to_strbuf |-> "lwan_append_str_to_strbuf",
       get_is_empty |-> "lwan_tpl_str_is_empty",
       generator |-> "NULL", list_desc |-> "NULL"],
      [name |-> LongName(LEXEME_MAX_LEN), offset |-> "s",
       append_to_strbuf |-> "lwan_append_str_to_strbuf",
       get_is_empty |-> "lwan_tpl_str_is_empty",
       generator |-> "NULL", list_desc |-> "NULL"],
      [name |-> LongName(LEXEME_MAX_LEN + 1), offset |-> "s",
       append_to_strbuf |-> "lwan_append_str_to_strbuf",
       get_is_empty |-> "lwan_tpl_str_is_empty",
       generator |-> "NULL", list_desc |-> "NULL"]>>

descriptor_set ==
    [root |-> <<1, 2, 3, 4, 7, 8>>, item_a |-> <<5>>, item_b |-> <<6>>]

\* The files lwan_tpl_compile_file can open: the partial "p" and two
\* partials with names of LEXEME_MAX_LEN and LEXEME_MAX_LEN + 1 bytes, each
\* holding the one-letter template "P"; no other file exists.
partial_files ==
    {<<"p">>, LongName(LEXEME_MAX_LEN), LongName(LEXEME_MAX_LEN + 1)}

-----------------------------------------------------------------------------
(* Chunk payloads (chunk->data): a tag k for what the pointer slot holds,  *)
(* the value v, and for a chunk_descriptor the chunk it points at.         *)

NullData == [k |-> "null", v |-> 0, chunk |-> NULL]
StrbufData(text) == [k |-> "strbuf", v |-> text, chunk |-> NULL]
CharData(ch) == [k |-> "char", v |-> ch, chunk |-> NULL]
DescriptorData(d) == [k |-> "descriptor", v |-> d, chunk |-> NULL]
OffsetData(off) == [k |-> "offset", v |-> off, chunk |-> NULL]
IndexData(index) == [k |-> "index", v |-> index, chunk |-> NULL]
ChunkData(c) == [k |-> "chunk", v |-> c, chunk |-> NULL]
ChunkDescriptorData(d, c) == [k |-> "chunk_descriptor", v |-> d, chunk |-> c]
TplData(name) == [k |-> "tpl", v |-> name, chunk |-> NULL]

\* chunk p of a chunk array
ChunkAt(cs, p) == cs[p + 1]

-----------------------------------------------------------------------------
(* Symbol table *)

RECURSIVE hash_find(_, _, _)
\* The descriptor called name in descriptor set ds, from entry k on.
hash_find(ds, k, name) ==
    IF k > Len(ds) THEN NULL
    ELSE IF lwan_var_descriptor[ds[k]].name = name THEN ds[k]
    ELSE hash_find(ds, k + 1, name)

RECURSIVE symtab_lookup(_, _)
\* symtab: the scopes, innermost first
symtab_lookup(symtab, name) ==
    IF symtab = <<>> THEN NULL
    ELSE LET var == hash_find(descriptor_set[Head(symtab)], 1, name)
         IN  IF var # NULL THEN var ELSE symtab_lookup(Tail(symtab), name)

\* lexeme->value.len > n, for the size_t that holds pos - start
size_gt(len, n) == len < 0 \/ len > n

\* The first descriptor of the root for every name, where
\* symtab_lookup_lexeme searches the scopes for the name
symtab_lookup_lexeme_first(P, lx) == 1

symtab_lookup_lexeme(P, lx) ==
    IF size_gt(lx.len, LEXEME_MAX_LEN) THEN NULL
    ELSE symtab_lookup(P.symtab, Slice(lx.start, lx.len))

\* No descriptor set refused, where symtab_push refuses a NULL one
symtab_push_enodev_never(list_desc) == FALSE

\* if (!descriptor) return -ENODEV, in symtab_push
symtab_push_enodev(list_desc) == list_desc = "NULL"

\* No scope entered, where symtab_push enters the scope of list_desc
symtab_push_none(P, list_desc) == P

\* symtab_push succeeds unless the descriptor set is NULL (-ENODEV)
symtab_push(P, list_desc) == [P EXCEPT !.symtab = <<list_desc>> \o @]

symtab_pop(P) == [P EXCEPT !.symtab = Tail(@)]

-----------------------------------------------------------------------------
(* Parser helpers *)

error_lexeme(L, slot, msg) ==
    [L EXCEPT !.ring_buffer.array[slot] =
        [type |-> "ERROR", start |-> 0, len |-> 0, msg |-> msg]]

unexpected_lexeme(L, slot) == error_lexeme(L, slot, "unexpected lexeme")

\* *lexeme = *lex_error when next is an ERROR or EOF lexeme, else
\* unexpected_lexeme(lexeme); nextslot is NULL for a NULL `next`.
unexpected_lexeme_or_lex_error(L, slot, nextslot) ==
    IF nextslot # NULL
       /\ L.ring_buffer.array[nextslot].type \in {"ERROR", "EOF"}
        THEN [L EXCEPT !.ring_buffer.array[slot] = L.ring_buffer.array[nextslot]]
        ELSE unexpected_lexeme(L, slot)

parser_push_lexeme(P, lx) == [P EXCEPT !.stack = <<lx>> \o @]

emit_chunk(P, action, flags, data) ==
    [P EXCEPT !.chunks = Append(@, [action |-> action, flags |-> flags,
                                    data |-> data])]

\* A comparison of the lengths only, where parser_stack_top_matches
\* compares the bytes too
stack_top_matches_len(stacked, lx, type) ==
    /\ stacked.type = type
    /\ lx.len = stacked.len

\* `matches` of parser_stack_top_matches, for a non-empty stack
stack_top_matches(stacked, lx, type) ==
    /\ stacked.type = type
    /\ lx.len = stacked.len
    /\ Slice(stacked.start, stacked.len) = Slice(lx.start, lx.len)

RECURSIVE find_chunk_reverse(_, _, _, _)
\* LWAN_ARRAY_FOREACH_REVERSE: the last chunk at or before p with this
\* action whose data is the descriptor symbol; NULL when there is none.
find_chunk_reverse(cs, p, action, symbol) ==
    IF p < 0 THEN NULL
    ELSE IF ChunkAt(cs, p).action = action
            /\ ChunkAt(cs, p).data.k = "descriptor"
            /\ ChunkAt(cs, p).data.v = symbol
        THEN p
    ELSE find_chunk_reverse(cs, p - 1, action, symbol)

\* The flags left as they are, where parser_negate toggles FLAGS_NEGATE
toggle_negate_kept(flags) == flags

\* parser->flags ^= FLAGS_NEGATE
toggle_negate(flags) ==
    IF "NEGATE" \in flags THEN flags \ {"NEGATE"} ELSE flags \cup {"NEGATE"}

\* lwan_tpl_compile_file(filename, descriptor) != NULL
compile_file_ok(filename) == filename \in partial_files

-----------------------------------------------------------------------------
(* The linker: post_process_template *)

RECURSIVE find_end_var_not_empty(_, _, _)
\* The inner for (prev_chunk = chunk;; chunk++) of the IF_VARIABLE_NOT_EMPTY
\* branch: the chunk it breaks at, NULL when it meets ACTION_LAST first.
find_end_var_not_empty(cs, p, d) ==
    IF ChunkAt(cs, p).action = "LAST" THEN NULL
    ELSE IF ChunkAt(cs, p).action = "END_IF_VARIABLE_NOT_EMPTY"
            /\ ChunkAt(cs, p).data.k = "descriptor"
            /\ ChunkAt(cs, p).data.v = d
        THEN p
    ELSE find_end_var_not_empty(cs, p + 1, d)

RECURSIVE find_end_iter(_, _, _)
\* The inner for of the START_ITER branch: the END_ITER whose stored index
\* is prev_index, NULL when ACTION_LAST comes first.
find_end_iter(cs, p, prev_index) ==
    IF ChunkAt(cs, p).action = "LAST" THEN NULL
    ELSE IF ChunkAt(cs, p).action = "END_ITER"
            /\ ChunkAt(cs, p).data.k = "index"
            /\ ChunkAt(cs, p).data.v = prev_index
        THEN p
    ELSE find_end_iter(cs, p + 1, prev_index)

\* cd->chunk of a linked START_ITER, chunk being the END_ITER found
iter_cd_chunk(cs, chunk) ==
    IF ChunkAt(cs, chunk).action = "LAST" THEN chunk ELSE chunk + 1

\* Where LWAN_ARRAY_FOREACH goes on after a block was linked: the body
\* ends with chunk = prev_chunk + 1 and the loop header then does chunk++.
foreach_after_link(prev_chunk) == (prev_chunk + 1) + 1

\* The ACTION_VARIABLE branch: whether it goes on, and the chunk rewritten
post_process_variable(c) ==
    LET descriptor == lwan_var_descriptor[c.data.v]
        escape == "QUOTE" \in c.flags
    IN  IF descriptor.append_to_strbuf = "lwan_append_str_to_strbuf"
            THEN [ok |-> TRUE,
                  chunk |-> [c EXCEPT !.action = IF escape
                                            THEN "VARIABLE_STR_ESCAPE"
                                            ELSE "VARIABLE_STR",
                                      !.data = OffsetData(descriptor.offset)]]
        ELSE IF escape THEN [ok |-> FALSE, chunk |-> c]
        ELSE IF descriptor.append_to_strbuf = "NULL"
            THEN [ok |-> FALSE, chunk |-> c]
        ELSE [ok |-> TRUE, chunk |-> c]

RECURSIVE post_process_loop(_, _)
\* LWAN_ARRAY_FOREACH(&parser->chunks, chunk) from chunk p on
post_process_loop(cs, p) ==
    IF p >= Len(cs) THEN [ok |-> TRUE, chunks |-> cs]
    ELSE
    LET c == ChunkAt(cs, p)
    IN  CASE c.action = "IF_VARIABLE_NOT_EMPTY" ->
                LET chunk == find_end_var_not_empty(cs, p, c.data.v)
                IN  IF chunk = NULL THEN [ok |-> FALSE, chunks |-> cs]
                    ELSE post_process_loop(
                            [cs EXCEPT ![p + 1].data =
                                            ChunkDescriptorData(c.data.v, chunk),
                                       ![p + 1].flags = @ \ {"NO_FREE"}],
                            foreach_after_link(p))
          [] c.action = "START_ITER" ->
                LET chunk == find_end_iter(cs, p, p)
                IN  IF chunk = NULL THEN [ok |-> FALSE, chunks |-> cs]
                    ELSE post_process_loop(
                            [cs EXCEPT ![chunk + 1].flags = @ \cup c.flags,
                                       ![chunk + 1].data = ChunkData(p),
                                       ![p + 1].data =
                                            ChunkDescriptorData(c.data.v,
                                                iter_cd_chunk(cs, chunk)),
                                       ![p + 1].flags = @ \ {"NO_FREE"}],
                            foreach_after_link(p))
          [] c.action = "VARIABLE" ->
                LET v == post_process_variable(c)
                IN  IF ~v.ok THEN [ok |-> FALSE, chunks |-> cs]
                    ELSE post_process_loop([cs EXCEPT ![p + 1] = v.chunk],
                                           p + 1)
          [] c.action = "LAST" -> [ok |-> TRUE, chunks |-> cs]
          [] OTHER -> post_process_loop(cs, p + 1)

post_process_template(cs) == post_process_loop(cs, 0)

-----------------------------------------------------------------------------
(* Freeing: free_chunk and lwan_tpl_free.  A pointer to allocated memory   *)
(* is named by what it points to and by the chunk that holds it; a         *)
(* pointer to a caller's descriptor by the descriptor.                     *)

Ptr(k, at) == [k |-> k, at |-> at]

\* chunk->data of chunk p, as the pointer free() would get
DataPtr(c, p) ==
    IF c.data.k = "descriptor" THEN Ptr("descriptor", c.data.v)
                               ELSE Ptr(c.data.k, p)

\* No chunk exempt, where free_chunk leaves a FLAGS_NO_FREE chunk alone
no_free_never(c) == FALSE

\* chunk->flags & FLAGS_NO_FREE
no_free(c) == "NO_FREE" \in c.flags

\* The pointers free_chunk releases for chunk p
free_chunk(c, p) ==
    IF no_free(c) THEN <<>>
    ELSE CASE c.action \in {"IF_VARIABLE_NOT_EMPTY", "START_ITER"} ->
                <<DataPtr(c, p)>>
           [] c.action = "APPEND" -> <<Ptr("strbuf", p)>>
           [] c.action = "APPLY_TPL" -> <<Ptr("tpl", p)>>
           [] OTHER -> <<>>

RECURSIVE free_chunks(_, _)
\* LWAN_ARRAY_FOREACH(&tpl->chunks, iter) free_chunk(iter), from chunk p on
free_chunks(cs, p) ==
    IF p >= Len(cs) THEN <<>>
    ELSE free_chunk(ChunkAt(cs, p), p) \o free_chunks(cs, p + 1)

\* The pointers lwan_tpl_free releases for a template with these chunks:
\* the payloads, the chunk array if it has elements, the template
lwan_tpl_free(cs) ==
    (IF cs # <<>> THEN free_chunks(cs, 0) \o <<Ptr("chunks", 0)>> ELSE <<>>)
        \o <<Ptr("lwan_tpl", 0)>>

-----------------------------------------------------------------------------
(* lex_next and the parser's loop *)

\* The lexeme consume_lexeme would hand out, and its slot
FrontSlot == lexeme_ring_buffer_slot(lexer.ring_buffer)
Front == lexer.ring_buffer.array[FrontSlot]
RingEmpty == lexeme_ring_buffer_empty(lexer.ring_buffer)
\* The lexer after consume_lexeme took that lexeme
Consumed == [lexer EXCEPT !.ring_buffer = lexeme_ring_buffer_get_ptr(@)]

\* Positions inside parser_identifier and parser_slash, where the handler
\* itself calls lex_next for the lexeme after the identifier.
PeekStates == {"parser_identifier", "parser_identifier_quote", "parser_slash_next"}

\* A state function run whether or not the ring holds a lexeme, where
\* lex_next tries consume_lexeme first
LexNextRuns_eager(s) ==
    /\ pc = "parse"
    /\ state # "NULL"
    /\ lexer.state = s

\* lex_next is running a state function: somebody asked for a lexeme, the
\* ring is empty and the lexer has not stopped.
LexNextRuns(s) ==
    /\ pc = "parse"
    /\ state # "NULL"
    /\ RingEmpty
    /\ lexer.state = s

LexStep(L) ==
    /\ lexer' = L
    /\ UNCHANGED <<input, kept, freed, parser, state, lexeme, tpl, frames, buf,
                   variables, pc>>

LexText == LexNextRuns("lex_text") /\ LexStep(lex_text(lexer))
LexLeftMeta == LexNextRuns("lex_left_meta") /\ LexStep(lex_left_meta(lexer))
LexComment == LexNextRuns("lex_comment") /\ LexStep(lex_comment(lexer))
LexInsideAction ==
    LexNextRuns("lex_inside_action") /\ LexStep(lex_inside_action(lexer))
LexIdentifier == LexNextRuns("lex_identifier") /\ LexStep(lex_identifier(lexer))
LexQuotedIdentifier ==
    LexNextRuns("lex_quoted_identifier") /\ LexStep(lex_quoted_identifier(lexer))
LexPartial == LexNextRuns("lex_partial") /\ LexStep(lex_partial(lexer))
LexRightMeta == LexNextRuns("lex_right_meta") /\ LexStep(lex_right_meta(lexer))

\* parse_string's loop hands a lexeme that is no ERROR to the state s.
Handles(s) ==
    /\ pc = "parse"
    /\ state = s
    /\ ~RingEmpty
    /\ Front.type # "ERROR"

\* A handler waiting in lex_next at position s gets its answer: a lexeme,
\* or false once the lexer has stopped with the ring empty.
Peeks(s) ==
    /\ pc = "parse"
    /\ state = s
    /\ (RingEmpty => lexer.state = "NULL")

\* The handler returned NULL after error_lexeme / unexpected_lexeme.
ParserFails(L) ==
    /\ lexer' = L
    /\ state' = "NULL"
    /\ UNCHANGED <<parser, tpl>>

ParserGoes(L, P, s) ==
    /\ lexer' = L
    /\ parser' = P
    /\ state' = s
    /\ UNCHANGED tpl

ParserText ==
    /\ Handles("parser_text")
    /\ lexeme' = FrontSlot
    /\ CASE Front.type = "LEFT_META" ->
                ParserGoes(Consumed, parser, "parser_meta")
         [] Front.type = "TEXT" ->
                /\ lexer' = Consumed
                /\ parser' =
                    IF Front.len = 1
                        THEN emit_chunk(parser, "APPEND_CHAR", {},
                                        CharData(CharAt(Front.start)))
                        ELSE emit_chunk(parser, "APPEND", {},
                                        StrbufData(Slice(Front.start, Front.len)))
                /\ tpl' = [tpl EXCEPT !.minimum_size = @ + Front.len]
                /\ state' = "parser_text"
         [] Front.type = "EOF" ->
                ParserGoes(Consumed, emit_chunk(parser, "LAST", {}, NullData),
                           "NULL")
         [] OTHER -> ParserFails(unexpected_lexeme(Consumed, FrontSlot))
    /\ UNCHANGED <<input, kept, freed, frames, buf, variables, pc>>

ParserMeta ==
    /\ Handles("parser_meta")
    /\ lexeme' = FrontSlot
    /\ CASE Front.type = "OPEN_CURLY_BRACE" ->
                IF "QUOTE" \in parser.flags
                    THEN ParserFails(unexpected_lexeme(Consumed, FrontSlot))
                    ELSE ParserGoes(Consumed,
                                    [parser EXCEPT !.flags = @ \cup {"QUOTE"}],
                                    "parser_meta")
         [] Front.type = "IDENTIFIER" ->
                ParserGoes(Consumed, parser, "parser_identifier")
         [] Front.type = "GREATER_THAN" ->
                ParserGoes(Consumed, parser, "parser_partial")
         [] Front.type = "HASH" -> ParserGoes(Consumed, parser, "parser_iter")
         [] Front.type = "HAT" -> ParserGoes(Consumed, parser, "parser_negate")
         [] Front.type = "SLASH" -> ParserGoes(Consumed, parser, "parser_slash")
         [] OTHER -> ParserFails(unexpected_lexeme(Consumed, FrontSlot))
    /\ UNCHANGED <<input, kept, freed, frames, buf, variables, pc>>

ParserNegate ==
    /\ Handles("parser_negate")
    /\ lexeme' = FrontSlot
    /\ CASE Front.type = "HASH" ->
                ParserGoes(Consumed,
                           [parser EXCEPT !.flags = toggle_negate(@)],
                           "parser_iter")
         [] Front.type = "IDENTIFIER" ->
                ParserGoes(Consumed,
                           [parser EXCEPT !.flags = toggle_negate(@)],
                           "parser_identifier")
         [] OTHER -> ParserFails(unexpected_lexeme(Consumed, FrontSlot))
    /\ UNCHANGED <<input, kept, freed, frames, buf, variables, pc>>

ParserIter ==
    /\ Handles("parser_iter")
    /\ lexeme' = FrontSlot
    /\ IF Front.type = "IDENTIFIER"
        THEN LET negate == parser.flags \cap {"NEGATE"}
                 symbol == symtab_lookup_lexeme(parser, Front)
             IN  IF symbol = NULL
                    THEN ParserFails(error_lexeme(Consumed, FrontSlot,
                                                  "Unknown variable"))
                 ELSE IF symtab_push_enodev(lwan_var_descriptor[symbol].list_desc)
                    THEN ParserFails(error_lexeme(Consumed, FrontSlot,
                            "Couldn't find descriptor for variable"))
                 ELSE ParserGoes(Consumed,
                        [parser_push_lexeme(
                            emit_chunk(
                                symtab_push(parser,
                                    lwan_var_descriptor[symbol].list_desc),
                                "START_ITER", negate \cup {"NO_FREE"},
                                DescriptorData(symbol)),
                            Front)
                          EXCEPT !.flags = @ \ {"NEGATE"}],
                        "parser_right_meta")
        ELSE ParserFails(unexpected_lexeme(Consumed, FrontSlot))
    /\ UNCHANGED <<input, kept, freed, frames, buf, variables, pc>>

ParserRightMeta ==
    /\ Handles("parser_right_meta")
    /\ lexeme' = FrontSlot
    /\ IF Front.type = "RIGHT_META"
        THEN ParserGoes(Consumed, parser, "parser_text")
        ELSE ParserFails(unexpected_lexeme(Consumed, FrontSlot))
    /\ UNCHANGED <<input, kept, freed, frames, buf, variables, pc>>

ParserPartial ==
    /\ Handles("parser_partial")
    /\ lexeme' = FrontSlot
    /\ IF Front.type # "IDENTIFIER"
        THEN ParserFails(unexpected_lexeme(Consumed, FrontSlot))
        ELSE IF compile_file_ok(Slice(Front.start, Front.len))
            THEN ParserGoes(Consumed,
                            emit_chunk(parser, "APPLY_TPL", {},
                                       TplData(Slice(Front.start, Front.len))),
                            "parser_right_meta")
            ELSE ParserFails(error_lexeme(Consumed, FrontSlot,
                                          "Could not compile template"))
    /\ UNCHANGED <<input, kept, freed, frames, buf, variables, pc>>

\* parser_slash up to its lex_next
ParserSlash ==
    /\ Handles("parser_slash")
    /\ lexeme' = FrontSlot
    /\ IF Front.type = "IDENTIFIER"
        THEN ParserGoes(Consumed, parser, "parser_slash_next")
        ELSE ParserFails(unexpected_lexeme(Consumed, FrontSlot))
    /\ UNCHANGED <<input, kept, freed, frames, buf, variables, pc>>

\* The identifier lexeme a handler waiting in lex_next was called with
Ident == lexer.ring_buffer.array[lexeme]

\* parser_identifier from the lexeme `next` (in slot nextslot) on; L is
\* the lexer after that lexeme was consumed.
parser_identifier_next(L, nextslot) ==
    LET nx == L.ring_buffer.array[nextslot]
        symbol == symtab_lookup_lexeme(parser, Ident)
    IN  CASE nx.type = "RIGHT_META" ->
                IF symbol = NULL
                    THEN ParserFails(error_lexeme(L, lexeme, "Unknown variable"))
                    ELSE /\ lexer' = L
                         /\ parser' =
                                [emit_chunk(parser, "VARIABLE", parser.flags,
                                            DescriptorData(symbol))
                                    EXCEPT !.flags = @ \ {"QUOTE"}]
                         /\ tpl' = [tpl EXCEPT !.minimum_size = @ + Ident.len + 1]
                         /\ state' = "parser_text"
          [] nx.type = "QUESTION_MARK" ->
                IF symbol = NULL
                    THEN ParserFails(error_lexeme(L, lexeme, "Unknown variable"))
                    ELSE ParserGoes(L,
                            [parser_push_lexeme(
                                emit_chunk(parser, "IF_VARIABLE_NOT_EMPTY",
                                    {"NO_FREE"} \cup (parser.flags \cap {"NEGATE"}),
                                    DescriptorData(symbol)),
                                Ident)
                              EXCEPT !.flags = @ \ {"NEGATE"}],
                            "parser_right_meta")
          [] OTHER ->
                ParserFails(unexpected_lexeme_or_lex_error(L, lexeme, nextslot))

\* parser_identifier, at its first lex_next
ParserIdentifier ==
    /\ Peeks("parser_identifier")
    /\ IF RingEmpty
        THEN /\ state' = "NULL"
             /\ UNCHANGED <<lexer, parser, tpl>>
        ELSE IF "QUOTE" \in parser.flags
            THEN IF Front.type # "CLOSE_CURLY_BRACE"
                    THEN ParserFails(error_lexeme(Consumed, lexeme,
                                                  "Expecting closing brace"))
                    ELSE ParserGoes(Consumed, parser, "parser_identifier_quote")
            ELSE parser_identifier_next(Consumed, FrontSlot)
    /\ UNCHANGED <<input, kept, freed, lexeme, frames, buf, variables, pc>>

\* parser_identifier, at the lex_next that follows the closing brace
ParserIdentifierQuote ==
    /\ Peeks("parser_identifier_quote")
    /\ IF RingEmpty
        THEN ParserFails(unexpected_lexeme(lexer, lexeme))
        ELSE parser_identifier_next(Consumed, FrontSlot)
    /\ UNCHANGED <<input, kept, freed, lexeme, frames, buf, variables, pc>>

parser_stack_top_matches(P, lx, type) ==
    /\ P.stack # <<>>
    /\ stack_top_matches(Head(P.stack), lx, type)

\* The parser after list_del() of the matching stack entry
parser_stack_pop(P) == [P EXCEPT !.stack = Tail(@)]

parser_end_iter(L) ==
    IF ~parser_stack_top_matches(parser, Ident, "IDENTIFIER")
        THEN ParserFails(error_lexeme(L, lexeme,
                IF parser.stack = <<>> THEN "unexpected {{/}}"
                                       ELSE "expecting IDENTIFIER but found"))
    ELSE
    LET P == parser_stack_pop(parser)
        symbol == symtab_lookup_lexeme(P, Ident)
        iter == find_chunk_reverse(P.chunks, Len(P.chunks) - 1, "START_ITER",
                                   symbol)
    IN  IF symbol = NULL
            THEN /\ lexer' = error_lexeme(L, lexeme, "Unknown variable")
                 /\ parser' = P
                 /\ state' = "NULL"
                 /\ UNCHANGED tpl
        ELSE IF iter = NULL
            THEN /\ lexer' = error_lexeme(L, lexeme, "Could not find {{#}}")
                 /\ parser' = P
                 /\ state' = "NULL"
                 /\ UNCHANGED tpl
        ELSE ParserGoes(L,
                symtab_pop(emit_chunk(P, "END_ITER", {}, IndexData(iter))),
                "parser_text")

parser_end_var_not_empty(L) ==
    IF ~parser_stack_top_matches(parser, Ident, "IDENTIFIER")
        THEN ParserFails(error_lexeme(L, lexeme,
                IF parser.stack = <<>> THEN "unexpected {{/}}"
                                       ELSE "expecting IDENTIFIER but found"))
    ELSE
    LET P == parser_stack_pop(parser)
        symbol == symtab_lookup_lexeme(P, Ident)
        iter == find_chunk_reverse(P.chunks, Len(P.chunks) - 1,
                                   "IF_VARIABLE_NOT_EMPTY", symbol)
    IN  IF symbol = NULL
            THEN /\ lexer' = error_lexeme(L, lexeme, "Unknown variable")
                 /\ parser' = P
                 /\ state' = "NULL"
                 /\ UNCHANGED tpl
        ELSE IF iter = NULL
            THEN /\ lexer' = error_lexeme(L, lexeme,
                        IF P.chunks = <<>> THEN "No chunks were emitted"
                                           ELSE "Could not find {{?}}")
                 /\ parser' = P
                 /\ state' = "NULL"
                 /\ UNCHANGED tpl
        ELSE ParserGoes(L,
                emit_chunk(P, "END_IF_VARIABLE_NOT_EMPTY", {},
                           DescriptorData(symbol)),
                "parser_right_meta")

\* parser_slash from its lex_next on
ParserSlashNext ==
    /\ Peeks("parser_slash_next")
    /\ IF RingEmpty
        THEN ParserFails(unexpected_lexeme(lexer, lexeme))
        ELSE CASE Front.type = "RIGHT_META" -> parser_end_iter(Consumed)
               [] Front.type = "QUESTION_MARK" ->
                    parser_end_var_not_empty(Consumed)
               [] OTHER ->
                    ParserFails(unexpected_lexeme_or_lex_error(Consumed, lexeme,
                                                               FrontSlot))
    /\ UNCHANGED <<input, kept, freed, lexeme, frames, buf, variables, pc>>

-----------------------------------------------------------------------------
(* The end of parse_string: its loop exits, parser_shutdown runs, and      *)
(* lwan_tpl_compile_string_full returns the template or frees it.          *)

\* The while condition of parse_string is false.
LoopExits ==
    \/ state = "NULL"
    \/ RingEmpty /\ lexer.state = "NULL"
    \/ ~RingEmpty /\ Front.type = "ERROR"

\* The loop exits because lex_next handed it an ERROR lexeme.
LoopGotError == state # "NULL" /\ ~RingEmpty /\ Front.type = "ERROR"

ParserShutdown ==
    /\ pc = "parse"
    /\ state \notin PeekStates
    /\ LoopExits
    /\ LET L == IF LoopGotError THEN Consumed ELSE lexer
           slot == IF LoopGotError THEN FrontSlot ELSE lexeme
           success == /\ L.ring_buffer.array[slot].type # "ERROR"
                      /\ parser.stack = <<>>
                      /\ Len(parser.symtab) = 1
                      /\ "NEGATE" \notin parser.flags
                      /\ "QUOTE" \notin parser.flags
           linked == post_process_template(parser.chunks)
       IN  /\ lexer' = L
           /\ lexeme' = slot
           /\ IF parser.symtab = <<>>
                \* symtab_pop(parser) with no scope left: assert(tab) fails
                THEN /\ parser' = [parser EXCEPT !.stack = <<>>]
                     /\ pc' = "abort"
                     /\ UNCHANGED <<tpl, freed>>
                ELSE IF success /\ linked.ok
                    THEN /\ parser' = [parser EXCEPT !.stack = <<>>,
                                                     !.symtab = <<>>,
                                                     !.chunks = linked.chunks]
                         /\ tpl' = [tpl EXCEPT !.chunks = linked.chunks]
                         /\ freed' = freed
                         /\ pc' = "compiled"
                    \* parse_string returned false: lwan_tpl_free(tpl)
                    ELSE /\ parser' = [parser EXCEPT !.stack = <<>>,
                                                     !.symtab = <<>>,
                                                     !.chunks =
                                                        IF success
                                                            THEN linked.chunks
                                                            ELSE @]
                         /\ UNCHANGED tpl
                         /\ freed' = freed \o lwan_tpl_free(tpl.chunks)
                         /\ pc' = "failed"
    /\ UNCHANGED <<input, kept, state, frames, buf, variables>>

-----------------------------------------------------------------------------
(* Template sources: a template is a concatenation of at most MaxPieces    *)
(* pieces, each a tag of the syntax table or a run of text.                *)

Tag(body) == left_meta \o body \o right_meta

OpenIter(v) == Tag(<<"#", v>>)
OpenNegIter(v) == Tag(<<"^", "#", v>>)
OpenHat(v) == Tag(<<"^", v>>)
CloseIter(v) == Tag(<<"/", v>>)
OpenIf(v) == Tag(<<v, "?">>)
OpenNegIf(v) == Tag(<<"^", v, "?">>)
CloseIf(v) == Tag(<<"/", v, "?">>)
Var(v) == Tag(<<v>>)
QuotedVar(v) == Tag(<<"{", v, "}">>)
Partial(f) == Tag(<<">", " ", f>>)
Comment(t) == Tag(<<"!", t>>)
Text(t) == <<t>>

RECURSIVE Flatten(_)
Flatten(ps) == IF ps = <<>> THEN <<>> ELSE Head(ps) \o Flatten(Tail(ps))

PieceSeqs(S, n) == UNION {[1..k -> S] : k \in 0..n}

TemplatesOf(S) == {Flatten(ps) : ps \in PieceSeqs(S, MaxPieces)}

-----------------------------------------------------------------------------
(* The state after lwan_tpl_compile_string_full called parser_init *)

NoVariables == [s |-> [null |-> TRUE, str |-> <<>>], i |-> 0, a |-> 0, b |-> 0,
                v |-> [null |-> TRUE, str |-> <<>>],
                bs |-> [null |-> TRUE, str |-> <<>>]]

parser_init ==
    [symtab |-> <<"root">>, flags |-> {}, stack |-> <<>>, chunks |-> <<>>]

\* The caller keeps no render (state "off"), has kept none yet ("none"),
\* or has kept the record and the output of its first render ("kept").
Keeps(st, rec, out) == [state |-> st, variables |-> rec, buf |-> out]

\* The record a render was started with: the generators store the items
\* in the fields v and bs, which every render starts with as NULL strings.
Started(rec) ==
    [rec EXCEPT !.v = [null |-> TRUE, str |-> <<>>],
                !.bs = [null |-> TRUE, str |-> <<>>]]

InitKeeping(T, st) ==
    /\ input \in T
    /\ lexer = lex_init
    /\ parser = parser_init
    /\ state = "parser_text"
    /\ lexeme = NULL
    /\ tpl = [chunks |-> <<>>, minimum_size |-> 0]
    /\ frames = <<>>
    /\ buf = <<>>
    /\ variables = NoVariables
    /\ kept = Keeps(st, NoVariables, <<>>)
    /\ freed = <<>>
    /\ pc = "parse"

InitOn(T) == InitKeeping(T, "off")

-----------------------------------------------------------------------------
(* The record a template is rendered with (the `variables` pointer), and   *)
(* the callbacks of its descriptors.                                       *)

NullStr == [null |-> TRUE, str |-> <<>>]
Str(chars) == [null |-> FALSE, str |-> chars]

StrValues == {NullStr, Str(<<>>), Str(<<"<", "&">>)}
IntValues == {0, 10}

Records ==
    [s : StrValues, i : IntValues, a : 0..MaxItems, b : 0..MaxItems,
     v : {NullStr}, bs : {NullStr}]

\* Some chunk of the template refers to the descriptor d.
Uses(d) ==
    \E p \in 1..Len(tpl.chunks) :
        LET data == tpl.chunks[p].data
        IN  \/ data.k \in {"descriptor", "chunk_descriptor"} /\ data.v = d
            \/ data.k = "offset" /\ data.v = lwan_var_descriptor[d].offset

\* The records worth telling apart for this template: a field no chunk
\* refers to stays at its zero value.
Relevant(r) ==
    /\ ~Uses(1) => r.s = NullStr
    /\ ~Uses(2) => r.i = 0
    /\ ~Uses(3) => r.a = 0
    /\ ~Uses(4) => r.b = 0

DigitChar(k) == <<"0", "1", "2", "3", "4", "5", "6", "7", "8", "9">>[k + 1]

RECURSIVE int_to_string(_)
\* The decimal digits of a non-negative int
int_to_string(n) ==
    IF n < 10 THEN <<DigitChar(n)>>
    ELSE int_to_string(n \div 10) \o <<DigitChar(n % 10)>>

lwan_append_int_to_strbuf(b, value) == b \o int_to_string(value)

lwan_tpl_int_is_empty(value) == value = 0

\* Nothing appended, where lwan_append_str_to_strbuf appends the string
lwan_append_str_nothing(b, value) == b

lwan_append_str_to_strbuf(b, value) ==
    IF value.null THEN b ELSE b \o value.str

\* What the loop of lwan_append_str_escaped_to_strbuf appends for *p
escaped_char(ch) ==
    CASE ch = "<" -> <<"&", "l", "t", ";">>
      [] ch = ">" -> <<"&", "g", "t", ";">>
      [] ch = "&" -> <<"&", "a", "m", "p", ";">>
      [] ch = "\"" -> <<"&", "q", "u", "o", "t", ";">>
      [] ch = "'" -> <<"&", "#", "x", "2", "7", ";">>
      [] ch = "/" -> <<"&", "#", "x", "2", "f", ";">>
      [] OTHER -> <<ch>>

RECURSIVE escaped_str(_)
escaped_str(str) ==
    IF str = <<>> THEN <<>>
    ELSE escaped_char(Head(str)) \o escaped_str(Tail(str))

lwan_append_str_escaped_to_strbuf(b, value) ==
    IF value.null THEN b ELSE b \o escaped_str(value.str)

lwan_tpl_str_is_empty(value) == value.null \/ value.str = <<>>

\* descriptor->append_to_strbuf(buf, variables + descriptor->offset)
append_to_strbuf(descriptor, b, rec) ==
    IF descriptor.append_to_strbuf = "lwan_append_str_to_strbuf"
        THEN lwan_append_str_to_strbuf(b, rec[descriptor.offset])
        ELSE lwan_append_int_to_strbuf(b, rec[descriptor.offset])

\* descriptor->get_is_empty(variables + descriptor->offset)
get_is_empty(descriptor, rec) ==
    IF descriptor.get_is_empty = "lwan_tpl_str_is_empty"
        THEN lwan_tpl_str_is_empty(rec[descriptor.offset])
        ELSE lwan_tpl_int_is_empty(rec[descriptor.offset])

\* lwan_tpl_apply() of the partial "p" (the template "P") with the record
partial_output(name) == <<"P">>

-----------------------------------------------------------------------------
(* Generators: the coroutine of the sequence a (b) yields once per item,   *)
(* after storing the item in the record's field v (bs); it returns false   *)
(* when the items are used up, and stays finished.                         *)

NoCoro == [generator |-> "NULL", yielded |-> 0]

coro_new(generator) == [generator |-> generator, yielded |-> 0]

item_field(generator) == IF generator = "a" THEN "v" ELSE "bs"

\* coro_resume_value(coro, 0): whether the generator yielded, the
\* coroutine and the record afterwards
coro_resume_value(coro, rec) ==
    IF coro.yielded < rec[coro.generator]
        THEN [resumed |-> TRUE,
              coro |-> [coro EXCEPT !.yielded = @ + 1],
              variables |-> [rec EXCEPT ![item_field(coro.generator)] =
                                Str(<<DigitChar(coro.yielded + 1)>>)]]
        ELSE [resumed |-> FALSE, coro |-> coro, variables |-> rec]

-----------------------------------------------------------------------------
(* apply(): the frames of its recursion, innermost last.  A frame holds    *)
(* its chunk pointer, its sentinel `data`, its coroutine, and where it     *)
(* waits: dispatching, or in the recursive call of the conditional         *)
(* ("ret_if") or of the iteration ("ret_iter").                            *)

Frame(chunk, data) ==
    [chunk |-> chunk, data |-> data, coro |-> NoCoro, pc |-> "dispatch"]

Top == frames[Len(frames)]

\* The chunk pointer is inside the chunk array.
InArray(chunk) == chunk >= 0 /\ chunk < Len(tpl.chunks)

Cur == ChunkAt(tpl.chunks, Top.chunk)

Running == pc = "apply" /\ frames # <<>> /\ Top.pc = "dispatch"

\* goto *dispatch_table[chunk->action]
Dispatches(action) ==
    /\ Running
    /\ InArray(Top.chunk)
    /\ Cur.action = action

\* A sentinel that never matches, where the close chunk of a conditional
\* compares `data` with itself
PointsAt_never(data, p) == FALSE

\* data == p for a pointer to chunk p
PointsAt(data, p) == data.k = "chunk" /\ data.v = p

\* data == chunk->data, as pointer values (an index 0 is the NULL pointer)
SamePointer(x, y) ==
    \/ x.k = "null" /\ y.k = "null"
    \/ x.k = "null" /\ y.k = "index" /\ y.v = 0
    \/ x.k = "chunk" /\ y.k = "chunk" /\ x.v = y.v

\* The END_ITER branch would resume its coroutine and get an item.
EndIterIterates ==
    /\ ~SamePointer(Top.data, Cur.data)
    /\ Top.coro # NoCoro
    /\ coro_resume_value(Top.coro, variables).resumed

\* The dispatched chunk makes apply() read or call through something that
\* is not what the code takes it for.
Undefined ==
    /\ Running
    /\ IF ~InArray(Top.chunk) THEN TRUE
       ELSE CASE Cur.action = "VARIABLE" ->
                    lwan_var_descriptor[Cur.data.v].append_to_strbuf = "NULL"
              [] Cur.action = "IF_VARIABLE_NOT_EMPTY" ->
                    \/ Cur.data.k # "chunk_descriptor"
                    \/ lwan_var_descriptor[Cur.data.v].get_is_empty = "NULL"
              [] Cur.action = "START_ITER" ->
                    Top.coro = NoCoro /\ Cur.data.k # "chunk_descriptor"
              [] Cur.action = "END_ITER" ->
                    EndIterIterates /\ Cur.data.k # "chunk"
              [] OTHER -> FALSE

Defined(action) == Dispatches(action) /\ ~Undefined

\* chunk = p; DISPATCH_ACTION()
Goto(p) == [frames EXCEPT ![Len(frames)].chunk = p]

\* DISPATCH_NEXT_ACTION()
DispatchNext == Goto(Top.chunk + 1)

\* finalize: return chunk.  The caller goes on from the returned chunk: a
\* conditional does DISPATCH_NEXT_ACTION, an iteration DISPATCH_ACTION.
after_return(caller, chunk) ==
    IF caller.pc = "ret_if" THEN chunk + 1 ELSE chunk

Return(chunk) ==
    IF Len(frames) = 1
        THEN /\ frames' = <<>>
             /\ pc' = "applied"
        ELSE /\ frames' =
                LET caller == frames[Len(frames) - 1]
                IN  Append(SubSeq(frames, 1, Len(frames) - 2),
                           [caller EXCEPT !.chunk = after_return(caller, chunk),
                                          !.pc = "dispatch"])
             /\ pc' = pc

\* chunk = apply(tpl, first, buf, variables, data), entered from position at
Call(F, at, first, data) ==
    Append([F EXCEPT ![Len(F)].pc = at], Frame(first, data))

\* lwan_tpl_apply_with_buffer
ApplyStart ==
    /\ pc \in {"compiled", "applied"}
    /\ \E r \in Records :
        /\ Relevant(r)
        /\ variables' = r
    /\ buf' = <<>>
    /\ frames' = <<Frame(0, NullData)>>
    /\ kept' = IF kept.state = "none" /\ pc = "applied"
                    THEN Keeps("kept", Started(variables), buf)
                    ELSE kept
    /\ pc' = "apply"
    /\ UNCHANGED <<input, lexer, parser, state, lexeme, tpl, freed>>

ActionAppend ==
    /\ Defined("APPEND")
    /\ buf' = buf \o Cur.data.v
    /\ frames' = DispatchNext
    /\ UNCHANGED <<input, kept, freed, lexer, parser, state, lexeme, tpl,
                   variables, pc>>

ActionAppendChar ==
    /\ Defined("APPEND_CHAR")
    /\ buf' = Append(buf, Cur.data.v)
    /\ frames' = DispatchNext
    /\ UNCHANGED <<input, kept, freed, lexer, parser, state, lexeme, tpl,
                   variables, pc>>

ActionVariable ==
    /\ Defined("VARIABLE")
    /\ buf' = append_to_strbuf(lwan_var_descriptor[Cur.data.v], buf, variables)
    /\ frames' = DispatchNext
    /\ UNCHANGED <<input, kept, freed, lexer, parser, state, lexeme, tpl,
                   variables, pc>>

ActionVariableStr ==
    /\ Defined("VARIABLE_STR")
    /\ buf' = lwan_append_str_to_strbuf(buf, variables[Cur.data.v])
    /\ frames' = DispatchNext
    /\ UNCHANGED <<input, kept, freed, lexer, parser, state, lexeme, tpl,
                   variables, pc>>

ActionVariableStrEscape ==
    /\ Defined("VARIABLE_STR_ESCAPE")
    /\ buf' = lwan_append_str_escaped_to_strbuf(buf, variables[Cur.data.v])
    /\ frames' = DispatchNext
    /\ UNCHANGED <<input, kept, freed, lexer, parser, state, lexeme, tpl,
                   variables, pc>>

\* `empty` of the conditional, after FLAGS_NEGATE
if_empty(chunk, rec) ==
    get_is_empty(lwan_var_descriptor[chunk.data.v], rec)
        # ("NEGATE" \in chunk.flags)

ActionIfVariableNotEmpty ==
    /\ Defined("IF_VARIABLE_NOT_EMPTY")
    /\ frames' = IF if_empty(Cur, variables)
                    THEN Goto(Cur.data.chunk + 1)
                    ELSE Call(frames, "ret_if", Top.chunk + 1,
                              ChunkData(Cur.data.chunk))
    /\ UNCHANGED <<input, kept, freed, lexer, parser, state, lexeme, tpl, buf,
                   variables, pc>>

ActionEndIfVariableNotEmpty ==
    /\ Defined("END_IF_VARIABLE_NOT_EMPTY")
    /\ IF PointsAt(Top.data, Top.chunk)
        THEN Return(Top.chunk)
        ELSE frames' = DispatchNext /\ pc' = pc
    /\ UNCHANGED <<input, kept, freed, lexer, parser, state, lexeme, tpl, buf,
                   variables>>

ActionApplyTpl ==
    /\ Defined("APPLY_TPL")
    /\ buf' = buf \o partial_output(Cur.data.v)
    /\ frames' = DispatchNext
    /\ UNCHANGED <<input, kept, freed, lexer, parser, state, lexeme, tpl,
                   variables, pc>>

\* Where a START_ITER whose first resume stopped the loop goes on: at
\* cd->chunk for a negated one, one past it otherwise.
start_iter_stopped(cd_chunk, negate) ==
    IF negate THEN cd_chunk ELSE cd_chunk + 1

ActionStartIter ==
    /\ Defined("START_ITER")
    /\ IF Top.coro # NoCoro
        THEN /\ frames' = DispatchNext
             /\ UNCHANGED variables
        ELSE LET coro == coro_new(lwan_var_descriptor[Cur.data.v].generator)
                 first == coro_resume_value(coro, variables)
                 negate == "NEGATE" \in Cur.flags
                 resumed == first.resumed # negate
             IN  /\ variables' = first.variables
                 /\ frames' =
                        IF ~resumed
                            THEN Goto(start_iter_stopped(Cur.data.chunk, negate))
                            ELSE Call([frames EXCEPT ![Len(frames)].coro =
                                            first.coro],
                                      "ret_iter", Top.chunk + 1,
                                      ChunkData(Top.chunk))
    /\ UNCHANGED <<input, kept, freed, lexer, parser, state, lexeme, tpl, buf, pc>>

ActionEndIter ==
    /\ Defined("END_ITER")
    /\ IF SamePointer(Top.data, Cur.data)
        THEN Return(Top.chunk) /\ UNCHANGED variables
       ELSE IF Top.coro = NoCoro
        THEN frames' = DispatchNext /\ pc' = pc /\ UNCHANGED variables
       ELSE LET again == coro_resume_value(Top.coro, variables)
            IN  /\ variables' = again.variables
                /\ pc' = pc
                /\ frames' =
                    IF ~again.resumed
                        THEN [DispatchNext EXCEPT ![Len(frames)].coro = NoCoro]
                        ELSE Call([frames EXCEPT ![Len(frames)].coro =
                                        again.coro],
                                  "ret_iter", Cur.data.v + 1, Cur.data)
    /\ UNCHANGED <<input, kept, freed, lexer, parser, state, lexeme, tpl, buf>>

\* ACTION_LAST
Finalize ==
    /\ Defined("LAST")
    /\ Return(Top.chunk)
    /\ UNCHANGED <<input, kept, freed, lexer, parser, state, lexeme, tpl, buf,
                   variables>>

\* lwan_tpl_free of a template the compiler returned.  The chunks stay in
\* the model as they were, to be compared with what was freed.
TplFree ==
    /\ pc \in {"compiled", "applied"}
    /\ freed' = freed \o lwan_tpl_free(tpl.chunks)
    /\ pc' = "freed"
    /\ UNCHANGED <<input, kept, lexer, parser, state, lexeme, tpl, frames, buf,
                   variables>>

\* What the build may do once apply() has left defined behaviour: the
\* process dies, or the chunk has no effect and apply() goes on with the
\* next one, or it returns to its caller.
UndefinedOutcomes == {"crash", "next", "return"}

UndefinedBehaviour ==
    /\ Undefined
    /\ \E outcome \in UndefinedOutcomes :
        CASE outcome = "crash" -> frames' = frames /\ pc' = "crash"
          [] outcome = "next" ->
                /\ InArray(Top.chunk)
                /\ frames' = DispatchNext
                /\ pc' = pc
          [] OTHER -> Return(Top.chunk)
    /\ UNCHANGED <<input, kept, freed, lexer, parser, state, lexeme, tpl, buf,
                   variables>>

-----------------------------------------------------------------------------
(* Specifications *)

Next ==
    \/ LexText
    \/ LexLeftMeta
    \/ LexComment
    \/ LexInsideAction
    \/ LexIdentifier
    \/ LexQuotedIdentifier
    \/ LexPartial
    \/ LexRightMeta
    \/ ParserText
    \/ ParserMeta
    \/ ParserNegate
    \/ ParserIter
    \/ ParserIdentifier
    \/ ParserIdentifierQuote
    \/ ParserPartial
    \/ ParserRightMeta
    \/ ParserSlash
    \/ ParserSlashNext
    \/ ParserShutdown
    \/ ApplyStart
    \/ ActionAppend
    \/ ActionAppendChar
    \/ ActionVariable
    \/ ActionVariableStr
    \/ ActionVariableStrEscape
    \/ ActionIfVariableNotEmpty
    \/ ActionEndIfVariableNotEmpty
    \/ ActionApplyTpl
    \/ ActionStartIter
    \/ ActionEndIter
    \/ Finalize
    \/ UndefinedBehaviour
    \/ TplFree

\* Templates that between them use every tag of the syntax table
SyntaxTable ==
    {Text("X") \o Text("Y") \o Comment("c") \o Partial("p") \o Var("i")
        \o QuotedVar("s") \o Var("s") \o Text("Z"),
     OpenIter("a") \o Var("v") \o CloseIter("a")
        \o OpenNegIf("s") \o Text("X") \o CloseIf("s"),
     OpenIf("s") \o OpenNegIter("a") \o CloseIter("a") \o CloseIf("s")}


\* The block tags: how a block of each kind opens and closes
Blocks ==
    {[open |-> OpenIter("a"), close |-> CloseIter("a")],
     [open |-> OpenIter("b"), close |-> CloseIter("b")],
     [open |-> OpenNegIter("a"), close |-> CloseIter("a")],
     [open |-> OpenIf("s"), close |-> CloseIf("s")]}

\* What stands between the tags of a block, and after a block
Fill == {<<>>, Text("X"), QuotedVar("s")}
Tails == {<<>>, Text("X")}

RECURSIVE NestedBlocks(_)
\* The properly nested blocks of depth at most d
NestedBlocks(d) ==
    IF d = 0 THEN {<<>>}
    ELSE {B.open \o pre \o in \o post \o B.close :
            B \in Blocks, pre \in Fill, in \in NestedBlocks(d - 1),
            post \in Tails}

Nested == {blk \o tail : blk \in NestedBlocks(MaxDepth), tail \in Tails}

\* Tags of an iteration and of a conditional on the same identifier, in
\* any order
Crossing ==
    TemplatesOf({OpenIter("a"), OpenIf("a"), CloseIter("a"), CloseIf("a")})

Templates == SyntaxTable \cup Nested \cup Crossing

Init == InitOn(Templates)

Spec == Init /\ [][Next]_vars


-----------------------------------------------------------------------------
(* Properties of rendering: conditionals and iterations *)

OpenActions == {"IF_VARIABLE_NOT_EMPTY", "START_ITER"}
CloseActions == {"END_IF_VARIABLE_NOT_EMPTY", "END_ITER"}

RECURSIVE CloseFrom(_, _, _)
\* The first close chunk at or after p that is not inside a block opened
\* at or after p (depth counts those blocks); NULL when there is none.
CloseFrom(cs, p, depth) ==
    IF p >= Len(cs) THEN NULL
    ELSE IF ChunkAt(cs, p).action \in OpenActions
        THEN CloseFrom(cs, p + 1, depth + 1)
    ELSE IF ChunkAt(cs, p).action \in CloseActions
        THEN IF depth = 0 THEN p ELSE CloseFrom(cs, p + 1, depth - 1)
    ELSE CloseFrom(cs, p + 1, depth)

\* The chunk of the close tag of the block that chunk i opens
Close(i) == CloseFrom(tpl.chunks, i + 1, 0)

\* apply() is about to execute a chunk of this action.
At(action) == Running /\ InArray(Top.chunk) /\ Cur.action = action

\* The variable of the block chunk being executed
CurDescriptor == lwan_var_descriptor[Cur.data.v]

Negated(chunk) == "NEGATE" \in chunk.flags

\* The innermost frame returns in this step.
Returns == Running /\ Len(frames') = Len(frames) - 1

\* The frame that called the innermost one
Caller == frames[Len(frames) - 1]

\* The number of items the generator of the coroutine has
Items(coro) == variables[coro.generator]

\* C1: executing the open chunk i of a conditional on a variable with an
\* is_empty callback, apply() enters the body (chunk i + 1, to run up to
\* the block's own close chunk) iff is_empty returns false, or true for a
\* negated conditional, and otherwise goes on right after the block's own
\* close chunk with nothing rendered; and when the body returns, the
\* caller goes on right after the block's own close chunk.
C1_Conditional ==
    [][/\ (At("IF_VARIABLE_NOT_EMPTY") /\ CurDescriptor.get_is_empty # "NULL")
            => /\ pc' = pc
               /\ buf' = buf
               /\ frames' =
                    IF get_is_empty(CurDescriptor, variables) # Negated(Cur)
                        THEN Goto(Close(Top.chunk) + 1)
                        ELSE Call(frames, "ret_if", Top.chunk + 1,
                                  ChunkData(Close(Top.chunk)))
       /\ (Returns /\ Len(frames) > 1 /\ Caller.pc = "ret_if")
            => frames'[Len(frames')].chunk = Close(Caller.chunk) + 1
      ]_vars

\* C2: a non-negated iteration renders its body once per item, in yield
\* order.  The open chunk i enters the body (chunk i + 1, with item 1 in
\* the record) iff there is an item; the body of loop i returns only at
\* the END_ITER of loop i, where the loop's frame resumes the generator;
\* there the body is entered again with the next item iff one is left.
C2_BodyPerItem ==
    [][/\ (At("START_ITER") /\ ~Negated(Cur))
            => LET first == coro_resume_value(coro_new(CurDescriptor.generator),
                                              variables)
               IN  IF first.resumed
                    THEN /\ frames' =
                                Call([frames EXCEPT ![Len(frames)].coro =
                                            first.coro],
                                     "ret_iter", Top.chunk + 1,
                                     ChunkData(Top.chunk))
                         /\ variables' = first.variables
                    ELSE Len(frames') = Len(frames)
       /\ (Returns /\ Top.data.k = "chunk"
                /\ ChunkAt(tpl.chunks, Top.data.v).action = "START_ITER"
                /\ ~Negated(ChunkAt(tpl.chunks, Top.data.v)))
            => /\ Top.chunk = Close(Top.data.v)
               /\ frames'[Len(frames')].chunk = Top.chunk
       /\ (At("END_ITER") /\ ~Negated(Cur) /\ Top.coro # NoCoro
                /\ ~SamePointer(Top.data, Cur.data))
            => LET again == coro_resume_value(Top.coro, variables)
               IN  IF Top.coro.yielded < Items(Top.coro)
                    THEN /\ Cur.data.k = "chunk"
                         /\ Close(Cur.data.v) = Top.chunk
                         /\ frames' =
                                Call([frames EXCEPT ![Len(frames)].coro =
                                            again.coro],
                                     "ret_iter", Cur.data.v + 1, Cur.data)
                         /\ variables' = again.variables
                    ELSE Len(frames') = Len(frames)
      ]_vars

\* C3: when a non-negated iteration stops, on the first resume at its
\* START_ITER or on a later one at its END_ITER, apply() goes on in the
\* same frame with the chunk right after the loop's END_ITER.
C3_ResumeAfterLoop ==
    [][/\ (At("START_ITER") /\ ~Negated(Cur)
                /\ Items(coro_new(CurDescriptor.generator)) = 0)
            => /\ frames' = Goto(Close(Top.chunk) + 1)
               /\ pc' = pc
       /\ (At("END_ITER") /\ ~Negated(Cur) /\ Top.coro # NoCoro
                /\ ~SamePointer(Top.data, Cur.data)
                /\ Top.coro.yielded >= Items(Top.coro))
            => /\ frames' = [Goto(Top.chunk + 1) EXCEPT ![Len(frames)].coro =
                                NoCoro]
               /\ pc' = pc
      ]_vars

\* C4: executing the open chunk i of an iteration that carries NEGATE,
\* apply() enters the body iff the generator yields no item and otherwise
\* goes on right after the loop's END_ITER; after the body, at the
\* END_ITER, the body is not entered again and apply() goes on right
\* after it.
C4_NegatedIteration ==
    [][/\ (At("START_ITER") /\ Negated(Cur))
            => /\ pc' = pc
               /\ frames' =
                    IF Items(coro_new(CurDescriptor.generator)) = 0
                        THEN Call([frames EXCEPT ![Len(frames)].coro =
                                        coro_new(CurDescriptor.generator)],
                                  "ret_iter", Top.chunk + 1,
                                  ChunkData(Top.chunk))
                        ELSE Goto(Close(Top.chunk) + 1)
       /\ (Returns /\ Top.data.k = "chunk"
                /\ ChunkAt(tpl.chunks, Top.data.v).action = "START_ITER"
                /\ Negated(ChunkAt(tpl.chunks, Top.data.v)))
            => /\ Top.chunk = Close(Top.data.v)
               /\ frames'[Len(frames')].chunk = Top.chunk
       /\ (At("END_ITER") /\ Negated(Cur) /\ Top.coro # NoCoro
                /\ ~SamePointer(Top.data, Cur.data))
            => /\ frames' = [Goto(Top.chunk + 1) EXCEPT ![Len(frames)].coro =
                                NoCoro]
               /\ pc' = pc
      ]_vars

-----------------------------------------------------------------------------
(* Properties of compiling: negation, balance, nesting, linking *)

\* parse_string is over; the template was returned (and is being rendered,
\* was rendered, was freed by its owner, or the process died rendering it),
\* unless the constructor freed it and returned NULL (pc = "failed") or the
\* process died in parser_shutdown (pc = "abort").
Compiled == pc \in {"compiled", "apply", "applied", "crash", "freed"}
ParseOver == pc # "parse"

\* Templates of a negated iteration over a with a body of text only
NegatePieces == {OpenNegIter("a"), OpenHat("a"), CloseIter("a"), Text("X")}

TextRuns == {Flatten(ps) : ps \in PieceSeqs({Text("X")}, MaxPieces - 2)}

InitNegate == InitOn(SyntaxTable \cup TemplatesOf(NegatePieces))

SpecNegate == InitNegate /\ [][Next]_vars

RECURSIVE TagEnd(_)
TagEnd(p) ==
    IF p > Len(input) THEN p
    ELSE IF StartsWith(p - 1, right_meta) THEN p
    ELSE TagEnd(p + 1)

\* What a tag with this text between {{ and }} is: the open or close tag
\* of an iteration or of a conditional on id, or no block tag.
BlockTag(body) ==
    LET n == Len(body)
        rest(k) == SubSeq(body, k, n)
        cond(k) == SubSeq(body, k, n - 1)
    IN  IF n < 2 THEN [tag |-> "none", kind |-> "none", id |-> <<>>]
        ELSE IF body[1] = "#"
            THEN [tag |-> "open", kind |-> "iter", id |-> rest(2)]
        ELSE IF body[1] = "^" /\ body[2] = "#"
            THEN [tag |-> "open", kind |-> "iter", id |-> rest(3)]
        ELSE IF body[1] = "/" /\ body[n] = "?"
            THEN [tag |-> "close", kind |-> "if", id |-> cond(2)]
        ELSE IF body[1] = "/"
            THEN [tag |-> "close", kind |-> "iter", id |-> rest(2)]
        ELSE IF body[1] = "^" /\ body[n] = "?"
            THEN [tag |-> "open", kind |-> "if", id |-> cond(2)]
        ELSE IF body[n] = "?"
            THEN [tag |-> "open", kind |-> "if", id |-> cond(1)]
        ELSE [tag |-> "none", kind |-> "none", id |-> <<>>]

RECURSIVE BalancedFrom(_, _)
\* From position p on, with these blocks open (innermost first), every
\* close tag closes the innermost open block, which is of its kind and
\* identifier, and no block stays open.
BalancedFrom(p, open) ==
    IF p > Len(input) THEN open = <<>>
    ELSE IF ~StartsWith(p - 1, left_meta) THEN BalancedFrom(p + 1, open)
    ELSE LET q == TagEnd(p + 2)
             t == BlockTag(SubSeq(input, p + 2, q - 1))
         IN  IF t.tag = "open"
                THEN BalancedFrom(q + 2, <<[kind |-> t.kind, id |-> t.id]>> \o open)
             ELSE IF t.tag = "close"
                THEN /\ open # <<>>
                     /\ Head(open) = [kind |-> t.kind, id |-> t.id]
                     /\ BalancedFrom(q + 2, Tail(open))
             ELSE BalancedFrom(q + 2, open)

Balanced == BalancedFrom(1, <<>>)

\* C6: a template of Templates (its identifiers resolve and its iterated
\* variables have a list_desc) compiles iff its block tags are balanced.
C6_BalancedIffCompiles ==
    (input \in Templates /\ ParseOver) => (Compiled <=> Balanced)


\* Templates with close tags that match the open block or do not
ClosePieces ==
    {OpenIter("a"), OpenIf("s"), CloseIter("a"), CloseIf("s"),
     Tag(<<"/", "s", "a">>)}

InitClose == InitOn(SyntaxTable \cup TemplatesOf(ClosePieces))

SpecClose == InitClose /\ [][Next]_vars

\* parser_slash has the identifier of a close tag and the lexeme after it
\* that completes the tag.
ClosesTag ==
    /\ pc = "parse"
    /\ state = "parser_slash_next"
    /\ ~RingEmpty
    /\ Front.type \in {"RIGHT_META", "QUESTION_MARK"}

\* The bytes of an identifier lexeme
Bytes(lx) == Slice(lx.start, lx.len)

\* The close tag's identifier is not the one on top of the block stack.
Mismatched ==
    \/ parser.stack = <<>>
    \/ Bytes(Ident) # Bytes(Head(parser.stack))

\* The parser stopped with an error lexeme.
Stopped ==
    /\ state = "NULL"
    /\ lexeme # NULL
    /\ lexer.ring_buffer.array[lexeme].type = "ERROR"

\* C7: a close tag whose identifier differs from the one on top of the
\* block stack, or that finds the stack empty, emits no chunk and pops no
\* scope and stops the parser with an error; and once the parser has
\* stopped with an error no template is returned.
C7_MismatchedClose ==
    [][/\ (ClosesTag /\ Mismatched)
            => /\ parser'.chunks = parser.chunks
               /\ parser'.symtab = parser.symtab
               /\ Stopped'
       /\ Stopped => (Stopped' /\ ~Compiled')
      ]_vars

C7_Witness ==
    /\ pc = "failed"
    /\ Stopped
    /\ lexer.ring_buffer.array[lexeme].msg = "expecting IDENTIFIER but found"
    /\ parser.chunks # <<>>

RECURSIVE NestedFrom(_, _, _)
\* From chunk p on, with the chunks in open being the open blocks
\* (innermost first): every END_ITER closes the innermost open block,
\* which is the START_ITER it refers to, every END_IF closes the innermost
\* open block, which is a conditional on its variable, and no block stays
\* open.
NestedFrom(cs, p, open) ==
    IF p >= Len(cs) THEN open = <<>>
    ELSE LET c == ChunkAt(cs, p)
         IN  IF c.action \in OpenActions
                THEN NestedFrom(cs, p + 1, <<p>> \o open)
             ELSE IF c.action = "END_ITER"
                THEN /\ open # <<>>
                     /\ ChunkAt(cs, Head(open)).action = "START_ITER"
                     /\ c.data \in {ChunkData(Head(open)), IndexData(Head(open))}
                     /\ NestedFrom(cs, p + 1, Tail(open))
             ELSE IF c.action = "END_IF_VARIABLE_NOT_EMPTY"
                THEN /\ open # <<>>
                     /\ ChunkAt(cs, Head(open)).action = "IF_VARIABLE_NOT_EMPTY"
                     /\ ChunkAt(cs, Head(open)).data.v = c.data.v
                     /\ NestedFrom(cs, p + 1, Tail(open))
             ELSE NestedFrom(cs, p + 1, open)

\* C8: the block chunks of a compiled template are properly nested.
C8_ProperNesting == Compiled => NestedFrom(tpl.chunks, 0, <<>>)

\* C9: in a compiled template every START_ITER and IF_VARIABLE_NOT_EMPTY
\* chunk holds a (descriptor, end chunk) record and has NO_FREE cleared,
\* and every START_ITER has exactly one END_ITER that points back at it.
C9_Linked ==
    Compiled =>
        \A i \in 0..(Len(tpl.chunks) - 1) :
            LET c == ChunkAt(tpl.chunks, i)
            IN  /\ c.action \in OpenActions
                    => /\ c.data.k = "chunk_descriptor"
                       /\ "NO_FREE" \notin c.flags
                /\ c.action = "START_ITER"
                    => Cardinality({j \in 0..(Len(tpl.chunks) - 1) :
                            /\ ChunkAt(tpl.chunks, j).action = "END_ITER"
                            /\ ChunkAt(tpl.chunks, j).data = ChunkData(i)}) = 1

\* The six entities of lwan_append_str_escaped_to_strbuf
Entities ==
    {<<"&", "l", "t", ";">>, <<"&", "g", "t", ";">>,
     <<"&", "a", "m", "p", ";">>, <<"&", "q", "u", "o", "t", ";">>,
     <<"&", "#", "x", "2", "7", ";">>, <<"&", "#", "x", "2", "f", ";">>}

\* No raw < > " ' / in the bytes, and & only at the start of an entity
EscapedBytes(bytes) ==
    \A k \in 1..Len(bytes) :
        /\ bytes[k] \notin {"<", ">", "\"", "'", "/"}
        /\ bytes[k] = "&"
            => \E e \in Entities :
                /\ k + Len(e) - 1 <= Len(bytes)
                /\ SubSeq(bytes, k, k + Len(e) - 1) = e

\* C10: what apply() appends for a chunk of a triple-brace substitution
\* (a chunk that carries QUOTE) of a string variable is escaped.
C10_Escaped ==
    [][(Running /\ InArray(Top.chunk) /\ "QUOTE" \in Cur.flags)
            => /\ Len(buf') >= Len(buf)
               /\ EscapedBytes(SubSeq(buf', Len(buf) + 1, Len(buf')))
      ]_vars

-----------------------------------------------------------------------------
(* Properties of compiling: what the compiler rejects *)

\* The template source holds the bytes seq somewhere.
Contains(seq) ==
    \E p \in 1..(Len(input) - Len(seq) + 1) :
        SubSeq(input, p, p + Len(seq) - 1) = seq

\* Templates with a triple-brace substitution of the int i, at the top
\* level or inside a conditional
QuotePieces == {QuotedVar("i"), OpenIf("s"), CloseIf("s"), Text("X")}

InitQuote == InitOn(SyntaxTable \cup TemplatesOf(QuotePieces))

SpecQuote == InitQuote /\ [][Next]_vars

\* C11: a template that holds a triple-brace substitution of a variable
\* whose appender is not lwan_append_str_to_strbuf (the int i, the
\* sequence a) is not compiled, wherever the substitution stands.
C11_QuotedNonString ==
    (ParseOver /\ (Contains(QuotedVar("i")) \/ Contains(QuotedVar("a"))))
        => ~Compiled

-----------------------------------------------------------------------------
(* Properties of compiling: scopes, read off the template text *)

\* The identifier named by a tag with this text between {{ and }}
IdentOf(body) == SelectSeq(body, LAMBDA ch : isalnum(ch) \/ ch = "_")

\* The descriptors called name that a descriptor set declares
Declared(scope, name) ==
    {d \in {descriptor_set[scope][k] : k \in 1..Len(descriptor_set[scope])} :
        lwan_var_descriptor[d].name = name}

RECURSIVE ResolveIn(_, _)
\* The descriptor called name of the innermost of these scopes that
\* declares one, NULL when none does
ResolveIn(scopes, name) ==
    IF scopes = <<>> THEN NULL
    ELSE IF Declared(Head(scopes), name) # {}
        THEN CHOOSE d \in Declared(Head(scopes), name) : TRUE
    ELSE ResolveIn(Tail(scopes), name)

RECURSIVE ScopesFrom(_, _, _)
\* The scopes open at position p of the template text (innermost first,
\* the root last), scopes being those open at position q <= p: {{#x}} and
\* {{^#x}} open the scope of the items of x, {{/x}} closes the innermost.
ScopesFrom(q, p, scopes) ==
    IF q >= p \/ q > Len(input) THEN scopes
    ELSE IF ~StartsWith(q - 1, left_meta) THEN ScopesFrom(q + 1, p, scopes)
    ELSE LET e == TagEnd(q + 2)
             t == BlockTag(SubSeq(input, q + 2, e - 1))
             x == ResolveIn(scopes, t.id)
         IN  IF t.kind = "iter" /\ t.tag = "open" /\ x # NULL
                THEN ScopesFrom(e + 2, p,
                        IF lwan_var_descriptor[x].list_desc = "NULL"
                            THEN scopes
                            ELSE <<lwan_var_descriptor[x].list_desc>> \o scopes)
             ELSE IF t.kind = "iter" /\ t.tag = "close" /\ Len(scopes) > 1
                THEN ScopesFrom(e + 2, p, Tail(scopes))
             ELSE ScopesFrom(e + 2, p, scopes)

\* The scopes the text has open at the 0-based offset p
TextScopes(p) == ScopesFrom(1, p + 1, <<"root">>)

\* Templates of iterations over a and b and of the variables v (declared
\* by the items of a only) and s (declared by the root and by the items
\* of b)
ScopePieces ==
    {OpenIter("a"), CloseIter("a"), OpenIter("b"), CloseIter("b"),
     Var("v"), Var("s")}

InitScope == InitOn(SyntaxTable \cup TemplatesOf(ScopePieces))

SpecScope == InitScope /\ [][Next]_vars

\* parser_identifier has the identifier of {{id}} or {{id?}} and the
\* lexeme after it, and looks the identifier up.
LooksUp ==
    /\ pc = "parse"
    /\ \/ state = "parser_identifier" /\ "QUOTE" \notin parser.flags
       \/ state = "parser_identifier_quote"
    /\ ~RingEmpty
    /\ Front.type \in {"RIGHT_META", "QUESTION_MARK"}

\* C12: an identifier resolves to the descriptor declared by the innermost
\* scope that the template text has open where the identifier stands (the
\* scopes of the iterations whose body it stands in, then the root): the
\* chunk emitted for it refers to that descriptor, and when no open scope
\* declares it the parser stops with an error and no template is returned.
C12_Scoping ==
    [][/\ LooksUp
            => LET expected == ResolveIn(TextScopes(Ident.start), Bytes(Ident))
               IN  IF expected = NULL
                    THEN Stopped' /\ parser'.chunks = parser.chunks
                    ELSE /\ Len(parser'.chunks) = Len(parser.chunks) + 1
                         /\ parser'.chunks[Len(parser'.chunks)].data =
                                DescriptorData(expected)
       /\ Stopped => ~Compiled'
      ]_vars

C12_Witness ==
    /\ input = OpenIter("a") \o OpenIter("b") \o Var("s") \o Var("v")
    /\ Len(parser.chunks) = 4
    /\ parser.chunks[3].data = DescriptorData(6)
    /\ parser.chunks[4].data = DescriptorData(5)

RECURSIVE UnresolvedFrom(_)
\* Some tag at or after position q of the template text, other than a
\* comment or a partial, names an identifier that no scope open at the
\* tag declares.
UnresolvedFrom(q) ==
    IF q > Len(input) THEN FALSE
    ELSE IF ~StartsWith(q - 1, left_meta) THEN UnresolvedFrom(q + 1)
    ELSE LET e == TagEnd(q + 2)
             body == SubSeq(input, q + 2, e - 1)
         IN  \/ /\ body # <<>>
                /\ body[1] \notin {"!", ">"}
                /\ ResolveIn(TextScopes(q - 1), IdentOf(body)) = NULL
             \/ UnresolvedFrom(e + 2)

\* Templates of every action on v, which only the items of a declare,
\* inside and outside an iteration over a
UnknownPieces ==
    {OpenIter("a"), CloseIter("a"), Var("v"), QuotedVar("v"), OpenIf("v"),
     OpenIter("v"), CloseIter("v"), CloseIf("v")}

InitUnknown == InitOn(SyntaxTable \cup TemplatesOf(UnknownPieces))

SpecUnknown == InitUnknown /\ [][Next]_vars

\* C13: a template in which some action names an identifier that no scope
\* open at that point declares is not compiled.
C13_UnknownIdentifier == (ParseOver /\ UnresolvedFrom(1)) => ~Compiled

C13_Witness ==
    /\ input = OpenIter("a") \o Var("v") \o CloseIter("a") \o CloseIf("v")
    /\ pc = "failed"
    /\ Stopped

-----------------------------------------------------------------------------
(* Properties of rendering: text and plain substitutions *)

\* Templates of text (runs of one and of several characters) and of plain
\* substitutions of the string s and the int i
PlainPieces == {Text("X"), Text("\n"), Var("s"), Var("i")}

PlainTemplates == TemplatesOf(PlainPieces)

InitPlain == InitOn(SyntaxTable \cup PlainTemplates)

SpecPlain == InitPlain /\ [][Next]_vars

\* The formatted value of the root variable id in the record
Formatted(id) ==
    IF id = <<"i">> THEN int_to_string(variables.i)
    ELSE IF variables.s.null THEN <<>> ELSE variables.s.str

RECURSIVE ExpectedFrom(_)
\* What the template text from position q on stands for: each character
\* of text as it is, each {{id}} replaced by the formatted value of id
ExpectedFrom(q) ==
    IF q > Len(input) THEN <<>>
    ELSE IF ~StartsWith(q - 1, left_meta)
        THEN <<input[q]>> \o ExpectedFrom(q + 1)
    ELSE LET e == TagEnd(q + 2)
         IN  Formatted(SubSeq(input, q + 2, e - 1)) \o ExpectedFrom(e + 2)

\* C14: a template of text and plain substitutions compiles, and its
\* render is the text runs and the formatted values in template order; a
\* template without any action renders to its source text.
C14_PlainOutput ==
    input \in PlainTemplates
        => /\ ParseOver => Compiled
           /\ pc = "applied"
                => /\ buf = ExpectedFrom(1)
                   /\ ~Contains(left_meta) => buf = input

C14_Witness ==
    /\ input = Text("X") \o Text("X") \o Var("i") \o Var("s")
    /\ pc = "applied"
    /\ buf = <<"X", "X", "1", "0", "<", "&">>

-----------------------------------------------------------------------------
(* Properties of rendering: the same template and record rendered again *)

\* The caller renders the template any number of times with any records
\* and keeps the record and the output of its first render.
InitRepeat == InitKeeping(SyntaxTable \cup Nested, "none")

SpecRepeat == InitRepeat /\ [][Next]_vars

\* C15: a render that was started with the record of the caller's first
\* render leaves in the buffer the bytes the first render left, whatever
\* was rendered in between.
C15_SameOutput ==
    (pc = "applied" /\ kept.state = "kept"
        /\ kept.variables = Started(variables))
        => buf = kept.buf

-----------------------------------------------------------------------------
(* Properties of lexing: comments, newlines, long identifiers *)

\* What a comment holds between {{! and }}: no brace, a lone closing
\* brace, a lone opening brace, a balanced pair of braces
CommentBodies ==
    {<<"c">>, <<"c", "}", "c">>, <<"c", "{", "c">>, <<"{", "c", "}", "c">>}

\* A comment between two runs of text
CommentTemplates ==
    {pre \o Tag(<<"!">> \o body) \o post :
        pre \in TextRuns, body \in CommentBodies, post \in TextRuns}

InitComment == InitOn(SyntaxTable \cup CommentTemplates)

SpecComment == InitComment /\ [][Next]_vars

RECURSIVE WithoutComments(_)
\* The template text from position q on, without its comments: a comment
\* runs from {{! to the end of the first }} after it.
WithoutComments(q) ==
    IF q > Len(input) THEN <<>>
    ELSE IF StartsWith(q - 1, left_meta) /\ CharAt(q + 1) = "!"
        THEN WithoutComments(TagEnd(q + 2) + 2)
    ELSE <<input[q]>> \o WithoutComments(q + 1)

\* C16: a template of text around a comment compiles, whatever braces the
\* comment holds, into the chunks of its text alone, and renders to the
\* text before the comment followed by the text after its closing }}.
C16_Comment ==
    input \in CommentTemplates
        => /\ ParseOver => Compiled
           /\ Compiled =>
                \A p \in 1..Len(tpl.chunks) :
                    tpl.chunks[p].action \in {"APPEND", "APPEND_CHAR", "LAST"}
           /\ pc = "applied" => buf = WithoutComments(1)

\* What stands between {{ and }} in an action of each kind
ActionBodies ==
    {<<"s">>, <<"s", "?">>, <<"#", "a">>, <<"^", "#", "a">>, <<"/", "a">>,
     <<"/", "s", "?">>, <<"{", "s", "}">>, <<">", " ", "p">>}

\* The body with a newline after its first k characters
WithNewline(body, k) ==
    SubSeq(body, 1, k) \o <<"\n">> \o SubSeq(body, k + 1, Len(body))

\* An action with a newline anywhere in it, by itself or as the open or
\* the close tag of a block
NewlineTemplates ==
    UNION {{pre \o Tag(WithNewline(body, k)) \o post :
                pre \in {<<>>, OpenIter("a"), OpenIf("s")},
                post \in {<<>>, CloseIter("a"), CloseIf("s")},
                k \in 0..Len(body)} :
           body \in ActionBodies}

InitNewline == InitOn(SyntaxTable \cup NewlineTemplates)

SpecNewline == InitNewline /\ [][Next]_vars

RECURSIVE NewlineFrom(_)
\* Some action at or after position q of the template text, other than a
\* comment, has a newline between its {{ and its }}.
NewlineFrom(q) ==
    IF q > Len(input) THEN FALSE
    ELSE IF ~StartsWith(q - 1, left_meta) THEN NewlineFrom(q + 1)
    ELSE LET e == TagEnd(q + 2)
         IN  \/ /\ CharAt(q + 1) # "!"
                /\ e <= Len(input)
                /\ \E k \in (q + 2)..(e - 1) : input[k] = "\n"
             \/ NewlineFrom(e + 2)

\* C17: a template with a newline between the {{ and the }} of an action
\* that is no comment is not compiled.
C17_NewlineInAction == (ParseOver /\ NewlineFrom(1)) => ~Compiled

C17_Witness ==
    /\ input = OpenIter("a") \o Tag(<<">", " ", "p", "\n">>)
    /\ pc = "failed"
    /\ lexeme # NULL
    /\ lexer.ring_buffer.array[lexeme].msg = "actions cannot span multiple lines"

\* What stands before and after the identifier in an action of each kind
ActionForms ==
    {[pre |-> <<>>, post |-> <<>>], [pre |-> <<"{">>, post |-> <<"}">>],
     [pre |-> <<>>, post |-> <<"?">>], [pre |-> <<"#">>, post |-> <<>>],
     [pre |-> <<"/">>, post |-> <<>>], [pre |-> <<"/">>, post |-> <<"?">>],
     [pre |-> <<">", " ">>, post |-> <<>>]}

\* Every action on an identifier of LEXEME_MAX_LEN bytes and on one of
\* LEXEME_MAX_LEN + 1 bytes (both name a string variable of the root and
\* a partial that exists), with and without text around it
LongTemplates ==
    {pre \o Tag(f.pre \o LongName(n) \o f.post) \o post :
        f \in ActionForms, n \in {LEXEME_MAX_LEN, LEXEME_MAX_LEN + 1},
        pre \in {<<>>, Text("X")}, post \in {<<>>, Text("X")}}

InitLong == InitOn(SyntaxTable \cup LongTemplates)

SpecLong == InitLong /\ [][Next]_vars

\* C18: a template with an identifier of more than LEXEME_MAX_LEN bytes in
\* an action, the name of a partial included, is not compiled.
C18_LongIdentifier ==
    (ParseOver /\ Contains(LongName(LEXEME_MAX_LEN + 1))) => ~Compiled

-----------------------------------------------------------------------------
(* Properties of freeing *)

\* Templates whose chunks own memory: text of two characters (a buffer),
\* a partial (a nested template), blocks (linker records)
FreePieces ==
    {<<"X", "Y">>, Partial("p"), OpenIf("s"), CloseIf("s"), OpenIter("a"),
     CloseIter("a")}

InitFree == InitOn(SyntaxTable \cup TemplatesOf(FreePieces))

SpecFree == InitFree /\ [][Next]_vars

\* What was allocated for these chunks: the buffer of every APPEND, the
\* nested template of every APPLY_TPL, the record of every linked block
\* chunk, and the chunk array
Allocated(cs) ==
    {Ptr("strbuf", p - 1) : p \in {q \in 1..Len(cs) : cs[q].action = "APPEND"}}
        \cup {Ptr("tpl", p - 1) :
                p \in {q \in 1..Len(cs) : cs[q].action = "APPLY_TPL"}}
        \cup {Ptr("chunk_descriptor", p - 1) :
                p \in {q \in 1..Len(cs) : cs[q].data.k = "chunk_descriptor"}}
        \cup (IF cs # <<>> THEN {Ptr("chunks", 0)} ELSE {})

\* How many times the pointer was freed
TimesFreed(ptr) == Cardinality({k \in 1..Len(freed) : freed[k] = ptr})

\* C19: when the constructor has returned NULL, everything allocated for
\* the chunks the parser emitted, and the chunk array, has been freed.
C19_FailureFreesAll ==
    pc = "failed" => \A ptr \in Allocated(parser.chunks) : TimesFreed(ptr) >= 1

\* C20: freeing a compiled template frees every payload its chunks own
\* (and the chunk array and the template) exactly once, and frees no
\* descriptor.
C20_FreeOnce ==
    pc = "freed"
        => /\ \A ptr \in Allocated(tpl.chunks) \cup {Ptr("lwan_tpl", 0)} :
                TimesFreed(ptr) = 1
           /\ \A k \in 1..Len(freed) :
                /\ freed[k].k # "descriptor"
                /\ TimesFreed(freed[k]) = 1

C20_Witness ==
    /\ pc = "freed"
    /\ input = OpenIter("a") \o <<"X", "Y">> \o Partial("p") \o CloseIter("a")
    /\ Len(freed) = 5

-----------------------------------------------------------------------------
(* The end of the input inside a block *)

UnclosedPieces == {OpenIter("a"), OpenIf("s"), CloseIter("a"), CloseIf("s")}

\* An iteration whose close tag is used for two conditionals on the same
\* identifier and for the iteration itself, with one conditional left open
Unwound ==
    OpenIter("a") \o OpenIf("a") \o OpenIf("a") \o CloseIter("a")
        \o CloseIter("a")

InitUnclosed ==
    InitOn(SyntaxTable \cup TemplatesOf(UnclosedPieces) \cup {Unwound})

SpecUnclosed == InitUnclosed /\ [][Next]_vars

\* The parser consumed the EOF lexeme: the last chunk emitted is LAST.
AtEndOfInput ==
    /\ parser.chunks # <<>>
    /\ parser.chunks[Len(parser.chunks)].action = "LAST"

\* parse_string has left its loop in this step: parser_shutdown ran.
ShutsDown == pc = "parse" /\ pc' # "parse"

\* C21: when the parser has consumed the end of the input with a block
\* still on the block stack, parser_shutdown returns failure, so that the
\* constructor returns no template, and it leaves the block stack empty
\* and the symbol table without a scope.
C21_OpenAtEnd ==
    [][(ShutsDown /\ AtEndOfInput /\ parser.stack # <<>>)
            => /\ pc' = "failed"
               /\ parser'.stack = <<>>
               /\ parser'.symtab = <<>>
      ]_vars

-----------------------------------------------------------------------------
(* The terminator of the chunk array *)

\* The chunks of cs that are LAST chunks, as offsets
Lasts(cs) == {p \in 0..(Len(cs) - 1) : ChunkAt(cs, p).action = "LAST"}

\* C22: a template the constructor returns has exactly one LAST chunk,
\* which is the final element of its chunk array; and a step adds a LAST
\* chunk to the parser's chunks only if it is parser_text consuming the
\* EOF lexeme, and then it adds that one chunk.
C22_OneLast ==
    [][/\ pc' = "compiled" => Lasts(tpl'.chunks) = {Len(tpl'.chunks) - 1}
       /\ Lasts(parser'.chunks) # Lasts(parser.chunks)
            => /\ Handles("parser_text")
               /\ Front.type = "EOF"
               /\ lexer' = Consumed
               /\ parser'.chunks =
                    Append(parser.chunks,
                           [action |-> "LAST", flags |-> {}, data |-> NullData])
      ]_vars

\* A compiled template of text, a variable and a block, ending in LAST
C22_Witness ==
    /\ pc = "compiled"
    /\ Len(tpl.chunks) >= 4
    /\ Lasts(tpl.chunks) = {Len(tpl.chunks) - 1}
    /\ \E p \in 1..Len(tpl.chunks) : tpl.chunks[p].action = "START_ITER"

-----------------------------------------------------------------------------
(* The scopes of the symbol table at the end of a parse *)

IterPieces ==
    {OpenIter("a"), OpenIter("b"), CloseIter("a"), CloseIter("b")}

\* Two iterations and two conditionals, the tags that close them
\* exchanged: {{/a}} closes {{a?}} and {{/b?}} closes {{#b}}
Exchanged ==
    OpenIter("a") \o OpenIter("b") \o OpenIf("b") \o OpenIf("a")
        \o CloseIter("a") \o CloseIf("b") \o CloseIf("b") \o CloseIter("a")

InitPaired == InitOn(SyntaxTable \cup TemplatesOf(IterPieces) \cup {Exchanged})

SpecPaired == InitPaired /\ [][Next]_vars

RECURSIVE PoppedByOwnClose(_, _, _)
\* Replaying the parser's chunks cs from chunk p on, with the variables of
\* the iterations entered and not yet left in `open` (innermost first):
\* every END_ITER, which is where parser_end_iter popped a scope, comes
\* from a close tag naming the variable of the innermost iteration.
PoppedByOwnClose(cs, p, open) ==
    IF p >= Len(cs) THEN TRUE
    ELSE LET c == ChunkAt(cs, p)
         IN  IF c.action = "START_ITER"
                THEN PoppedByOwnClose(cs, p + 1, <<c.data.v>> \o open)
             ELSE IF c.action = "END_ITER"
                THEN /\ open # <<>>
                     /\ Head(open) = ChunkAt(cs, c.data.v).data.v
                     /\ PoppedByOwnClose(cs, p + 1, Tail(open))
             ELSE PoppedByOwnClose(cs, p + 1, open)

\* C23: when compile succeeds, the symbol table held exactly the root
\* scope when parse_string left its loop, every scope an iteration open
\* pushed having been popped by the close tag of that iteration, and it
\* holds no scope after parser_shutdown.
C23_RootScope ==
    [][(pc = "parse" /\ pc' = "compiled")
            => /\ parser.symtab = <<"root">>
               /\ PoppedByOwnClose(parser.chunks, 0, <<>>)
               /\ parser'.symtab = <<>>
      ]_vars

-----------------------------------------------------------------------------
(* Identifiers, also at the end of the input *)

\* An action with an identifier in it, complete or cut off after the
\* identifier or after what follows it
IdentTemplates ==
    {pre \o left_meta \o sigil \o name \o end :
        pre \in {<<>>, Text("X")},
        sigil \in {<<>>, <<"#">>, <<"{">>, <<">", " ">>, <<"/">>},
        name \in {<<"s">>, <<"a">>, <<"p">>, <<"s", "_", "1">>},
        end \in {<<>>, right_meta, <<"?">>, <<" ">>, <<"}", "}", "}">>}}

InitIdent == InitOn(SyntaxTable \cup IdentTemplates)

SpecIdent == InitIdent /\ [][Next]_vars

RECURSIVE IdentRun(_)
\* The length of the maximal run of identifier characters at offset p
IdentRun(p) == IF isident(CharAt(p)) THEN 1 + IdentRun(p + 1) ELSE 0

\* The k-th lexeme the lexer emits in this step, counted from 0
Emitted(k) ==
    lexer'.ring_buffer.array[(lexer.ring_buffer.write + k) % RING_BUFFER_SIZE]

\* The lexeme lx is the identifier made of the maximal run at offset p.
SpansRun(lx, p) ==
    /\ lx.type = "IDENTIFIER"
    /\ lx.start = p
    /\ lx.len = IdentRun(p)

\* C24: when lex_identifier runs, as a state of the lexer or called by
\* lex_quoted_identifier after its OPEN_CURLY_BRACE, the IDENTIFIER lexeme
\* it emits spans the maximal run of identifier characters at the current
\* position, and as a state it leaves the position just past that run.
C24_MaximalIdentifier ==
    [][/\ LexNextRuns("lex_identifier")
            => /\ lexer'.ring_buffer.write = lexer.ring_buffer.write + 1
               /\ SpansRun(Emitted(0), lexer.pos)
               /\ lexer'.pos = lexer.pos + IdentRun(lexer.pos)
       /\ LexNextRuns("lex_quoted_identifier")
            => SpansRun(Emitted(1), lexer.pos)
      ]_vars

-----------------------------------------------------------------------------
(* After an error *)

\* The offsets of the ring slots written in this step
Written == lexer.ring_buffer.write..(lexer'.ring_buffer.write - 1)

\* The parser has an ERROR lexeme: lex_next is handing one to
\* parse_string's loop, or `lexeme` points to one (consumed from the
\* lexer, or written by error_lexeme in a handler).
ErrorSeen ==
    \/ pc = "parse" /\ LoopGotError
    \/ lexeme # NULL /\ lexer.ring_buffer.array[lexeme].type = "ERROR"

\* C25: a step of the lexer that emits an ERROR lexeme leaves the lexer's
\* state NULL, and a lexer whose state is NULL emits no lexeme; and once
\* the parser has an ERROR lexeme, consumed or produced by itself, it has
\* one for good, no step emits a chunk or pushes a scope or a block-stack
\* entry, and the constructor does not return a template.
C25_AfterError ==
    [][/\ (\E k \in Written : Emitted(k - lexer.ring_buffer.write).type = "ERROR")
            => lexer'.state = "NULL"
       /\ lexer.state = "NULL" => Written = {}
       /\ ErrorSeen
            => /\ ErrorSeen'
               /\ Len(parser'.chunks) <= Len(parser.chunks)
               /\ Len(parser'.symtab) <= Len(parser.symtab)
               /\ Len(parser'.stack) <= Len(parser.stack)
               /\ pc' \in {"parse", "failed", "abort"}
      ]_vars

\* The lexer stopped with an error inside an action after the parser had
\* emitted a chunk, and the constructor returned no template
C25_Witness ==
    /\ pc = "failed"
    /\ lexer.state = "NULL"
    /\ ErrorSeen
    /\ lexer.ring_buffer.array[lexeme].msg = "unexpected EOF while scanning action"
    /\ parser.chunks # <<>>

-----------------------------------------------------------------------------
(* An iteration over a variable that is no sequence *)

\* Iterations over s and i (root variables with no list_desc), over v
\* (declared by the items of a, with no list_desc) and over a
NoListPieces ==
    {OpenIter("s"), OpenNegIter("i"), OpenIter("v"), OpenIter("a"),
     CloseIter("a"), Text("X")}

InitNoList == InitOn(SyntaxTable \cup TemplatesOf(NoListPieces))

SpecNoList == InitNoList /\ [][Next]_vars

\* parser_iter has the identifier of {{#id}}, which the scopes open in the
\* template text resolve to a descriptor with no list_desc.
IteratesNoList ==
    /\ Handles("parser_iter")
    /\ Front.type = "IDENTIFIER"
    /\ LET x == ResolveIn(TextScopes(Front.start), Bytes(Front))
       IN  x # NULL /\ lwan_var_descriptor[x].list_desc = "NULL"

\* The parser stopped on the error of a missing descriptor set.
NoListError ==
    /\ Stopped
    /\ lexer.ring_buffer.array[lexeme].msg =
            "Couldn't find descriptor for variable"

\* C26: parser_iter on an identifier that resolves to a variable with no
\* list_desc stops the parser with the error of the missing descriptor and
\* leaves the parser as it was (chunks, scopes, block stack and flags);
\* and after that error the constructor returns no template.
C26_NoListDesc ==
    [][/\ IteratesNoList => (NoListError' /\ parser' = parser)
       /\ NoListError => (pc = "parse" => pc' = "failed")
      ]_vars

\* The error was met inside the body of an iteration, after chunks were
\* emitted, and the compile failed
C26_Witness ==
    /\ pc = "failed"
    /\ NoListError
    /\ Len(parser.chunks) >= 2
    /\ \E p \in 1..Len(parser.chunks) : parser.chunks[p].action = "START_ITER"

-----------------------------------------------------------------------------
(* The depth of the interpreter's recursion *)

\* Blocks over a, b and s nested to depth at most d, with text before the
\* inner block
RECURSIVE DeepBlocks(_)
DeepBlocks(d) ==
    IF d = 0 THEN {<<>>}
    ELSE {<<>>} \cup
         {B.open \o Text("X") \o in \o B.close :
            B \in Blocks, in \in DeepBlocks(d - 1)}

\* One such block, or two of them side by side
DeepTemplates ==
    DeepBlocks(MaxDepth) \cup
    {one \o two : one \in DeepBlocks(1), two \in DeepBlocks(MaxDepth)}

InitDeep == InitOn(SyntaxTable \cup DeepTemplates)

SpecDeep == InitDeep /\ [][Next]_vars

RECURSIVE NestingFrom(_, _, _)
\* The deepest nesting of blocks in the chunks of cs from chunk p on,
\* depth being the number of blocks open at chunk p
NestingFrom(cs, p, depth) ==
    IF p >= Len(cs) THEN depth
    ELSE LET d == IF ChunkAt(cs, p).action \in OpenActions THEN depth + 1
                  ELSE IF ChunkAt(cs, p).action \in CloseActions /\ depth > 0
                    THEN depth - 1
                  ELSE depth
             rest == NestingFrom(cs, p + 1, d)
         IN  IF rest > depth THEN rest ELSE depth

\* The deepest block nesting of the compiled template
Nesting == NestingFrom(tpl.chunks, 0, 0)

-----------------------------------------------------------------------------
(* The lexeme ring buffer *)

\* The offsets of the lexemes the ring holds: emitted and not yet consumed
Unconsumed(rb) == rb.read..(rb.write - 1)

\* C28: the ring never holds more than RING_BUFFER_SIZE lexemes.  A step
\* that emits lexemes starts with the ring empty and emits at most
\* RING_BUFFER_SIZE of them, and no step changes a lexeme that the ring
\* held before it and still holds after it.
C28_RingBounded ==
    [][/\ Written # {}
            => /\ RingEmpty
               /\ Cardinality(Written) <= RING_BUFFER_SIZE
       /\ Cardinality(Unconsumed(lexer'.ring_buffer)) <= RING_BUFFER_SIZE
       /\ \A k \in Unconsumed(lexer.ring_buffer) \cap
                    Unconsumed(lexer'.ring_buffer) :
            lexer'.ring_buffer.array[k % RING_BUFFER_SIZE] =
                lexer.ring_buffer.array[k % RING_BUFFER_SIZE]
      ]_vars

\* lex_quoted_identifier has emitted its three lexemes in one run, into a
\* ring whose slots have all been used before
C28_Witness ==
    /\ Cardinality(Unconsumed(lexer.ring_buffer)) = 3
    /\ lexer.ring_buffer.read >= RING_BUFFER_SIZE
    /\ lexer.ring_buffer.array[lexer.ring_buffer.read % RING_BUFFER_SIZE].type
            = "OPEN_CURLY_BRACE"

-----------------------------------------------------------------------------
(* Negation and the action it is written in *)

HatPieces ==
    {OpenHat("s"), OpenIter("a"), OpenNegIter("a"), CloseIter("a"),
     OpenIf("s"), OpenNegIf("s"), CloseIf("s")}

InitHat == InitOn(SyntaxTable \cup TemplatesOf(HatPieces))

SpecHat == InitHat /\ [][Next]_vars

RECURSIVE OpenHats(_)
\* For each tag of the template text from position p on that opens a
\* block, in order: whether a ^ stands in that tag
OpenHats(p) ==
    IF p > Len(input) THEN <<>>
    ELSE IF ~StartsWith(p - 1, left_meta) THEN OpenHats(p + 1)
    ELSE LET q == TagEnd(p + 2)
             body == SubSeq(input, p + 2, q - 1)
         IN  IF BlockTag(body).tag = "open"
                THEN <<body[1] = "^">> \o OpenHats(q + 2)
                ELSE OpenHats(q + 2)

\* The chunks of the compiled template that open a block, in order
OpenChunks == SelectSeq(tpl.chunks, LAMBDA c : c.action \in OpenActions)

\* C29: in a compiled template the chunk that opens a block carries
\* FLAGS_NEGATE iff a ^ stands in the tag that opened that block.
C29_NegateOwnAction ==
    Compiled
        => /\ Len(OpenChunks) = Len(OpenHats(1))
           /\ \A k \in 1..Len(OpenChunks) :
                Negated(OpenChunks[k]) <=> OpenHats(1)[k]

-----------------------------------------------------------------------------
(* symtab_pop and its assertion *)

\* This step calls symtab_pop: parser_end_iter pops the scope of the
\* iteration it closes, or parse_string has left its loop and
\* parser_shutdown pops what it takes for the root scope.
Pops ==
    \/ pc = "parse" /\ pc' = "parse"
        /\ Len(parser'.symtab) < Len(parser.symtab)
    \/ ShutsDown

\* C30: whenever symtab_pop is called, by parser_end_iter or by
\* parser_shutdown, the symbol table holds a scope, so that assert(tab)
\* holds and the process is not aborted.
C30_PopNonEmpty ==
    [][Pops => (parser.symtab # <<>> /\ pc' # "abort")]_vars

-----------------------------------------------------------------------------
(* The end of a render *)

\* C31: while a compiled template is rendered, the chunk apply() is about
\* to dispatch lies inside the chunk array (at most at its LAST chunk),
\* LAST is dispatched in the outermost activation only, and the render
\* ends by that dispatch.
C31_EndsAtLast ==
    [][/\ Running => InArray(Top.chunk)
       /\ At("LAST") => Len(frames) = 1
       /\ (pc = "apply" /\ pc' = "applied") => At("LAST")
      ]_vars

-----------------------------------------------------------------------------
(* The generators of a render *)

\* C32: the coroutine a START_ITER created lives in the local `coro` of the
\* activation that dispatched it and is freed there, so every generator
\* of a render is freed by the time the render returns exactly when no
\* activation returns while its coroutine is still live.
C32_GeneratorsFreed == [][Returns => Top.coro = NoCoro]_vars

-----------------------------------------------------------------------------
(* The defensive branches of the iteration dispatch *)

\* START_ITER is dispatched by an activation that already holds a coroutine.
StartIterHoldsCoro == At("START_ITER") /\ Top.coro # NoCoro

\* END_ITER is dispatched by an activation that holds no coroutine and whose
\* sentinel is not the chunk's open chunk.
EndIterWithoutCoro ==
    /\ At("END_ITER")
    /\ ~SamePointer(Top.data, Cur.data)
    /\ Top.coro = NoCoro

\* C33: while a compiled template is rendered, neither defensive branch of
\* the iteration dispatch is taken: no START_ITER is dispatched with a
\* live coroutine in the activation, and no END_ITER is dispatched without
\* one unless the activation's sentinel is the paired open chunk.
C33_NoDefensiveBranch == ~StartIterHoldsCoro /\ ~EndIterWithoutCoro

====
